---- MODULE Spec2Model ----
(***************************************************************************)
(* Kademlia routing table of OpenBazaar (src/dht): identifier algebra,     *)
(* Contact, KBucket, CachingKBucket and RoutingTable.                      *)
(*                                                                         *)
(* Identifiers are hexadecimal strings, modelled as sequences of one-      *)
(* character strings.  The identifier width, K and CACHE_K are scaled      *)
(* down from 160 / 24 / 32 so that the table can be explored exhaustively. *)
(* Indices into the bucket list are 0-based as in the source; the bucket   *)
(* at source index i is buckets[i + 1].                                    *)
(***************************************************************************)
EXTENDS Integers, Sequences, FiniteSets, TLC

\* ------------------------------------------------------------------------
\* dht/constants.py (scaled)
\* ------------------------------------------------------------------------
BIT_NODE_ID_LEN == 4

HEX_NODE_ID_LEN == BIT_NODE_ID_LEN \div 4

K == 2

CACHE_K == 2

\* Ticks of the clock after which a bucket that was not accessed is stale.
REFRESH_TIMEOUT == 2

\* ------------------------------------------------------------------------
\* Bounds of the exploration
\* ------------------------------------------------------------------------
\* Peers observed beyond the smallest population that overflows a bucket
\* next to own_guid and the replacement cache of a distant bucket.
ExtraPeers == 0

\* Depth at which the interpreter gives up a recursion (RuntimeError).
RecursionLimit == 8

\* ------------------------------------------------------------------------
\* Python helpers
\* ------------------------------------------------------------------------
Min(a, b) == IF a < b THEN a ELSE b

Pow2(n) == 2 ^ n

HexChars == <<"0", "1", "2", "3", "4", "5", "6", "7",
              "8", "9", "a", "b", "c", "d", "e", "f">>

\* The value of each hexadecimal digit.
HexValue ==
    ("0" :> 0) @@ ("1" :> 1) @@ ("2" :> 2) @@ ("3" :> 3) @@
    ("4" :> 4) @@ ("5" :> 5) @@ ("6" :> 6) @@ ("7" :> 7) @@
    ("8" :> 8) @@ ("9" :> 9) @@ ("a" :> 10) @@ ("b" :> 11) @@
    ("c" :> 12) @@ ("d" :> 13) @@ ("e" :> 14) @@ ("f" :> 15)

IsHexChar(ch) == ch \in DOMAIN HexValue

HexVal(ch) == HexValue[ch]

RECURSIVE HexDigitsOf(_)
\* The digits of hex(num) after the "0x" prefix.
HexDigitsOf(num) ==
    IF num < 16 THEN <<HexChars[num + 1]>>
    ELSE Append(HexDigitsOf(num \div 16), HexChars[(num % 16) + 1])

\* hex(num): "0x" followed by the digits.
hex(num) == <<"0", "x">> \o HexDigitsOf(num)

RECURSIVE lstrip(_, _)
lstrip(s, chars) ==
    IF s # <<>> /\ Head(s) \in chars THEN lstrip(Tail(s), chars) ELSE s

RECURSIVE rstrip(_, _)
rstrip(s, chars) ==
    IF s # <<>> /\ s[Len(s)] \in chars
    THEN rstrip(SubSeq(s, 1, Len(s) - 1), chars)
    ELSE s

RECURSIVE rjust(_, _, _)
rjust(s, width, fill) ==
    IF Len(s) >= width THEN s ELSE rjust(<<fill>> \o s, width, fill)

RECURSIVE ParseHex(_, _)
\* Value of a sequence of hex digits, most significant first.
ParseHex(s, acc) ==
    IF s = <<>> THEN acc ELSE ParseHex(Tail(s), acc * 16 + HexVal(Head(s)))

\* int(s, base=16): an optional "0x" prefix, then at least one hex digit.
\* ValueError is the value -1.
ValueError == 0 - 1

int16(s) ==
    LET body == IF Len(s) >= 2 /\ s[1] = "0" /\ s[2] = "x"
                THEN SubSeq(s, 3, Len(s)) ELSE s
    IN IF body = <<>> \/ \E i \in 1..Len(body) : ~IsHexChar(body[i])
       THEN ValueError
       ELSE ParseHex(body, 0)

\* ------------------------------------------------------------------------
\* dht/util.py
\* ------------------------------------------------------------------------
\* Mutant of num_to_guid_padded: the padding is left out.
num_to_guid_not_padded(num, width) ==
    rstrip(lstrip(hex(num), {"0", "x"}), {"L"})

\* num_to_guid with constants.HEX_NODE_ID_LEN = width.
num_to_guid_padded(num, width) ==
    rjust(rstrip(lstrip(hex(num), {"0", "x"}), {"L"}), width, "0")

num_to_guid(num) == num_to_guid_padded(num, HEX_NODE_ID_LEN)

guid_to_num(guid) == int16(rstrip(guid, {"L"}))

\* ------------------------------------------------------------------------
\* dht/contact.py
\* ------------------------------------------------------------------------
Contact(ip, port, guid) == [ip |-> ip, port |-> port, guid |-> guid]

\* Mutant of ContactEq: address and port are compared too.
ContactEq_all_fields(c1, c2) == c1 = c2

\* Contact.__eq__: identifier only.
ContactEq(c1, c2) == c1.guid = c2.guid

\* list.remove(x) / deque.remove(x): drops the first element equal to x;
\* the ValueError of an absent x is swallowed by every caller.
ListRemove(seq, x) ==
    IF \E i \in 1..Len(seq) : ContactEq(seq[i], x)
    THEN LET i == CHOOSE j \in 1..Len(seq) :
                     /\ ContactEq(seq[j], x)
                     /\ \A k \in 1..(j - 1) : ~ContactEq(seq[k], x)
         IN SubSeq(seq, 1, i - 1) \o SubSeq(seq, i + 1, Len(seq))
    ELSE seq

\* Mutant of ListInsert: the element goes before position i - 1.
ListInsert_one_early(seq, i, x) ==
    LET p == Min(IF i > 0 THEN i - 1 ELSE 0, Len(seq))
    IN SubSeq(seq, 1, p) \o <<x>> \o SubSeq(seq, p + 1, Len(seq))

\* list.insert(i, x), i a 0-based index.
ListInsert(seq, i, x) ==
    LET p == Min(i, Len(seq))
    IN SubSeq(seq, 1, p) \o <<x>> \o SubSeq(seq, p + 1, Len(seq))

\* ------------------------------------------------------------------------
\* dht/kbucket.py: KBucket
\* ------------------------------------------------------------------------
KBucketInit(range_min, range_max, t) ==
    [range_min |-> range_min, range_max |-> range_max, last_accessed |-> t,
     contacts |-> <<>>, replacement_cache |-> <<>>]

guid_in_range(b, guid) ==
    b.range_min <= guid_to_num(guid) /\ guid_to_num(guid) < b.range_max

contact_in_range(b, contact) == guid_in_range(b, contact.guid)

\* util.partition(sequence, self.contact_in_range): both callers pass the
\* bound method contact_in_range of a bucket as the predicate.
partition(sequence, self) ==
    <<SelectSeq(sequence, LAMBDA elem : contact_in_range(self, elem)),
      SelectSeq(sequence, LAMBDA elem : ~contact_in_range(self, elem))>>

\* Mutant of KBucket_add_contact: room for one contact too many.
KBucket_add_contact_one_more(b, contact) ==
    LET removed == ListRemove(b.contacts, contact)
    IN IF Len(removed) <= K
       THEN [bucket |-> [b EXCEPT !.contacts = Append(removed, contact)],
             err |-> "none"]
       ELSE [bucket |-> [b EXCEPT !.contacts = removed],
             err |-> "FullBucketError"]

\* Mutant of KBucket_add_contact: a full bucket makes room by dropping its
\* stalest contact.
KBucket_add_contact_evicts_oldest(b, contact) ==
    LET removed == ListRemove(b.contacts, contact)
    IN [bucket |-> [b EXCEPT !.contacts =
                        Append(IF Len(removed) < K THEN removed
                               ELSE Tail(removed), contact)],
        err |-> "none"]

\* Returns the bucket after the call and the error raised, if any.
KBucket_add_contact(b, contact) ==
    LET removed == ListRemove(b.contacts, contact)
    IN IF Len(removed) < K
       THEN [bucket |-> [b EXCEPT !.contacts = Append(removed, contact)],
             err |-> "none"]
       ELSE [bucket |-> [b EXCEPT !.contacts = removed],
             err |-> "FullBucketError"]

KBucket_get_contact(b, guid) ==
    IF \E i \in 1..Len(b.contacts) : b.contacts[i].guid = guid
    THEN <<b.contacts[CHOOSE i \in 1..Len(b.contacts) :
                /\ b.contacts[i].guid = guid
                /\ \A k \in 1..(i - 1) : b.contacts[k].guid # guid]>>
    ELSE <<>>

\* The value None of an optional guid; no identifier has this form.
None == <<"None">>

\* reversed(seq)
Reversed(seq) == [i \in 1..Len(seq) |-> seq[Len(seq) + 1 - i]]

RECURSIVE GetContactsLoop(_, _, _, _)
\* The loop of get_contacts over reversed(self._contacts); `rest` is what
\* is left of the reversed list.
GetContactsLoop(rest, contact_list, count, excluded_guid) ==
    IF rest = <<>> THEN contact_list
    ELSE IF Head(rest).guid = excluded_guid
    THEN GetContactsLoop(Tail(rest), contact_list, count, excluded_guid)
    ELSE LET appended == Append(contact_list, Head(rest))
         IN IF Len(appended) >= count THEN appended
            ELSE GetContactsLoop(Tail(rest), appended, count, excluded_guid)

\* Mutant of KBucket_get_contacts: the last `count` contacts are taken
\* first and the excluded guid is dropped from them afterwards.
KBucket_get_contacts_slice_then_skip(b, count, excluded_guid) ==
    LET current_len == Len(b.contacts)
    IN IF current_len = 0 \/ count = 0 THEN <<>>
       ELSE LET cnt == IF count < 0 THEN current_len
                       ELSE Min(count, current_len)
                last == SubSeq(b.contacts, current_len - cnt + 1, current_len)
            IN IF excluded_guid = None THEN last
               ELSE SelectSeq(Reversed(last),
                              LAMBDA c : c.guid # excluded_guid)

KBucket_get_contacts(b, count, excluded_guid) ==
    LET current_len == Len(b.contacts)
    IN IF current_len = 0 \/ count = 0 THEN <<>>
       ELSE LET cnt == IF count < 0 THEN current_len
                       ELSE Min(count, current_len)
            IN IF excluded_guid = None
               THEN SubSeq(b.contacts, current_len - cnt + 1, current_len)
               ELSE GetContactsLoop(Reversed(b.contacts), <<>>, cnt,
                                    excluded_guid)

KBucket_remove_contact(b, contact) ==
    [b EXCEPT !.contacts = ListRemove(b.contacts, contact)]

\* Mutant of KBucket_remove_guid: the test of the filter is inverted.
KBucket_remove_guid_inverted(b, guid) ==
    [b EXCEPT !.contacts = SelectSeq(b.contacts, LAMBDA c : c.guid = guid)]

KBucket_remove_guid(b, guid) ==
    [b EXCEPT !.contacts = SelectSeq(b.contacts, LAMBDA c : c.guid # guid)]

\* Mutant of half_point: the range is not halved, the low half is empty.
half_point_at_min(b) == b.range_min

\* Mutant of half_point: the offset range_min is forgotten.
half_point_from_zero(b) == (b.range_max - b.range_min) \div 2

half_point(b) == b.range_min + (b.range_max - b.range_min) \div 2

\* Mutant of KBucket_split_kbucket: the new bucket is returned without the
\* contacts of the high half.
KBucket_split_kbucket_drop_high(b, t) ==
    IF ~(b.range_min < half_point(b) /\ half_point(b) < b.range_max)
    THEN [self |-> b, new_kbucket |-> b, err |-> "AssertionError"]
    ELSE LET new    == KBucketInit(half_point(b), b.range_max, t)
             narrow == [b EXCEPT !.range_max = half_point(b)]
             parts  == partition(b.contacts, narrow)
         IN [self |-> [narrow EXCEPT !.contacts = parts[1]],
             new_kbucket |-> new,
             err |-> "none"]

\* Mutant of KBucket_split_kbucket: the two halves of the contact list are
\* assigned the wrong way round.
KBucket_split_kbucket_swapped(b, t) ==
    IF ~(b.range_min < half_point(b) /\ half_point(b) < b.range_max)
    THEN [self |-> b, new_kbucket |-> b, err |-> "AssertionError"]
    ELSE LET new    == KBucketInit(half_point(b), b.range_max, t)
             narrow == [b EXCEPT !.range_max = half_point(b)]
             parts  == partition(b.contacts, narrow)
         IN [self |-> [narrow EXCEPT !.contacts = parts[2]],
             new_kbucket |-> [new EXCEPT !.contacts = parts[1]],
             err |-> "none"]

\* Mutant of KBucket_split_kbucket: the contacts are divided by the range
\* of the bucket before it was narrowed, so that all of them stay.
KBucket_split_kbucket_stale_range(b, t) ==
    IF ~(b.range_min < half_point(b) /\ half_point(b) < b.range_max)
    THEN [self |-> b, new_kbucket |-> b, err |-> "AssertionError"]
    ELSE LET new    == KBucketInit(half_point(b), b.range_max, t)
             narrow == [b EXCEPT !.range_max = half_point(b)]
             parts  == partition(b.contacts, b)
         IN [self |-> [narrow EXCEPT !.contacts = parts[1]],
             new_kbucket |-> [new EXCEPT !.contacts = parts[2]],
             err |-> "none"]

\* Returns the narrowed bucket, the new bucket and the error raised.
KBucket_split_kbucket(b, t) ==
    IF ~(b.range_min < half_point(b) /\ half_point(b) < b.range_max)
    THEN [self |-> b, new_kbucket |-> b, err |-> "AssertionError"]
    ELSE LET new    == KBucketInit(half_point(b), b.range_max, t)
             narrow == [b EXCEPT !.range_max = half_point(b)]
             parts  == partition(b.contacts, narrow)
         IN [self |-> [narrow EXCEPT !.contacts = parts[1]],
             new_kbucket |-> [new EXCEPT !.contacts = parts[2]],
             err |-> "none"]

\* ------------------------------------------------------------------------
\* dht/kbucket.py: CachingKBucket
\* ------------------------------------------------------------------------
\* Mutant of cache_contact: the contact is put at the head (appendleft).
cache_contact_at_head(b, contact) ==
    LET put == <<contact>> \o ListRemove(b.replacement_cache, contact)
    IN [b EXCEPT !.replacement_cache =
            IF Len(put) > CACHE_K THEN Tail(put) ELSE put]

\* Mutant of cache_contact: nothing is evicted.
cache_contact_no_evict(b, contact) ==
    [b EXCEPT !.replacement_cache =
        Append(ListRemove(b.replacement_cache, contact), contact)]

\* Mutant of cache_contact: the newest entry is evicted (pop for popleft).
cache_contact_pop_tail(b, contact) ==
    LET appended == Append(ListRemove(b.replacement_cache, contact), contact)
    IN [b EXCEPT !.replacement_cache =
            IF Len(appended) > CACHE_K
            THEN SubSeq(appended, 1, Len(appended) - 1) ELSE appended]

\* Mutant of cache_contact: an entry with the same guid is not evicted.
cache_contact_keeps_old(b, contact) ==
    LET appended == Append(b.replacement_cache, contact)
    IN [b EXCEPT !.replacement_cache =
            IF Len(appended) > CACHE_K THEN Tail(appended) ELSE appended]

cache_contact(b, contact) ==
    LET appended == Append(ListRemove(b.replacement_cache, contact), contact)
    IN [b EXCEPT !.replacement_cache =
            IF Len(appended) > CACHE_K THEN Tail(appended) ELSE appended]

get_cached_contacts(b) == b.replacement_cache

RECURSIVE FillLoop_popleft(_, _)
\* Mutant of FillLoop: the oldest cached contact is moved (popleft for pop).
FillLoop_popleft(b, n) ==
    IF n <= 0 THEN [bucket |-> b, err |-> "none"]
    ELSE IF b.replacement_cache = <<>>
    THEN [bucket |-> b, err |-> "IndexError"]
    ELSE LET cache  == b.replacement_cache
             popped == Head(cache)
             rest   == [b EXCEPT !.replacement_cache = Tail(cache)]
             added  == KBucket_add_contact(rest, popped)
         IN IF added.err # "none" THEN added
            ELSE FillLoop_popleft(added.bucket, n - 1)

RECURSIVE FillLoop(_, _)
\* The loop of fill_from_cache: n more iterations of
\* self.add_contact(self._replacement_cache.pop()).
FillLoop(b, n) ==
    IF n <= 0 THEN [bucket |-> b, err |-> "none"]
    ELSE IF b.replacement_cache = <<>>
    THEN [bucket |-> b, err |-> "IndexError"]
    ELSE LET cache  == b.replacement_cache
             popped == cache[Len(cache)]
             rest   == [b EXCEPT !.replacement_cache =
                                    SubSeq(cache, 1, Len(cache) - 1)]
             added  == KBucket_add_contact(rest, popped)
         IN IF added.err # "none" THEN added
            ELSE FillLoop(added.bucket, n - 1)

\* Mutant of move_count: one move too many.
move_count_one_more(b) ==
    Min(Len(b.replacement_cache), K - Len(b.contacts) + 1)

move_count(b) == Min(Len(b.replacement_cache), K - Len(b.contacts))

fill_from_cache(b) == FillLoop(b, move_count(b))

\* Mutant of CachingKBucket_remove_contact: the contact is dropped from the
\* replacement cache as well.
CachingKBucket_remove_contact_purges_cache(b, contact) ==
    fill_from_cache(
        [KBucket_remove_contact(b, contact) EXCEPT
            !.replacement_cache = ListRemove(b.replacement_cache, contact)])

\* Mutant of CachingKBucket_remove_contact: the main list is not refilled.
CachingKBucket_remove_contact_no_fill(b, contact) ==
    [bucket |-> KBucket_remove_contact(b, contact), err |-> "none"]

CachingKBucket_remove_contact(b, contact) ==
    fill_from_cache(KBucket_remove_contact(b, contact))

\* Mutant of CachingKBucket_remove_guid: the main list is not refilled.
CachingKBucket_remove_guid_no_fill(b, guid) ==
    [bucket |-> KBucket_remove_guid(b, guid), err |-> "none"]

CachingKBucket_remove_guid(b, guid) ==
    fill_from_cache(KBucket_remove_guid(b, guid))

\* Mutant of CachingKBucket_split_kbucket: the replacement cache is not
\* partitioned, it stays with the narrowed bucket.
CachingKBucket_split_kbucket_cache_stays(b, t) ==
    LET base == KBucket_split_kbucket(b, t)
    IN IF base.err # "none" THEN base
       ELSE LET selfFill == fill_from_cache(base.self)
            IN [self |-> selfFill.bucket, new_kbucket |-> base.new_kbucket,
                err |-> selfFill.err]

CachingKBucket_split_kbucket(b, t) ==
    LET base == KBucket_split_kbucket(b, t)
    IN IF base.err # "none" THEN base
       ELSE LET caches   == partition(base.self.replacement_cache, base.self)
                new0     == [base.new_kbucket EXCEPT
                                !.replacement_cache = caches[2]]
                self0    == [base.self EXCEPT
                                !.replacement_cache = caches[1]]
                selfFill == fill_from_cache(self0)
                newFill  == fill_from_cache(new0)
            IN IF selfFill.err # "none"
               THEN [self |-> selfFill.bucket, new_kbucket |-> new0,
                     err |-> selfFill.err]
               ELSE [self |-> selfFill.bucket, new_kbucket |-> newFill.bucket,
                     err |-> newFill.err]

\* ------------------------------------------------------------------------
\* dht/routingtable.py: RoutingTable
\* ------------------------------------------------------------------------
VARIABLES
    own_guid,   \* RoutingTable.own_guid
    buckets,    \* RoutingTable._buckets
    now,        \* int(time.time())
    err,        \* the exception that left the last call, or "none"
    observed,   \* history: the guids given to add_contact, the last one last
    calls       \* the add_contact calls in progress, with their locals

vars == <<own_guid, buckets, now, err, observed, calls>>

BadGUIDError == 0 - 1

RECURSIVE BinarySearch_max_included(_, _, _, _)
\* Mutant of BinarySearch: range_max is taken as part of the range.
BinarySearch_max_included(bs, low, high, num_guid) ==
    IF ~(low < high) THEN BadGUIDError
    ELSE LET mid == low + (high - low) \div 2
             bucket == bs[mid + 1]
         IN IF bucket.range_min > num_guid
            THEN BinarySearch_max_included(bs, low, mid, num_guid)
            ELSE IF bucket.range_max < num_guid
            THEN BinarySearch_max_included(bs, mid + 1, high, num_guid)
            ELSE mid

RECURSIVE BinarySearch(_, _, _, _)
\* The loop of _get_kbucket_index; BadGUIDError when it runs out.
BinarySearch(bs, low, high, num_guid) ==
    IF ~(low < high) THEN BadGUIDError
    ELSE LET mid == low + (high - low) \div 2
             bucket == bs[mid + 1]
         IN IF bucket.range_min > num_guid
            THEN BinarySearch(bs, low, mid, num_guid)
            ELSE IF bucket.range_max <= num_guid
            THEN BinarySearch(bs, mid + 1, high, num_guid)
            ELSE mid

\* The 0-based index of the responsible bucket, or BadGUIDError.  A guid
\* that int() cannot parse makes guid_to_num raise ValueError instead.
get_kbucket_index(bs, guid) ==
    BinarySearch(bs, 0, Len(bs), guid_to_num(guid))

get_kbucket_index_err(guid) ==
    IF guid_to_num(guid) = ValueError THEN "ValueError" ELSE "BadGUIDError"

\* Mutant of adding_self: the check is missing.
adding_self_never(own, contact) == FALSE

\* `if contact.guid == self.own_guid`
adding_self(own, contact) == contact.guid = own

\* Mutant of may_split: every full bucket is split.
may_split_always(bucket, own) == TRUE

\* Mutant of may_split: no bucket is split, a full bucket caches.
may_split_never(bucket, own) == FALSE

\* `if bucket.guid_in_range(self.own_guid)`: the full bucket is split.
may_split(bucket, own) == guid_in_range(bucket, own)

RangeOf(b) == [range_min |-> b.range_min, range_max |-> b.range_max]

RECURSIVE RoutingTable_add_contact(_, _, _, _, _)
\* add_contact at recursion depth `depth`.  Returns the bucket list after
\* the call, the error that left the call (if any), how the contact ended
\* ("self", "added", "refreshed", "cached") and the ranges of the buckets
\* that were split, in the order of the splits.
RoutingTable_add_contact(bs, own, contact, t, depth) ==
    IF adding_self(own, contact)
    THEN [buckets |-> bs, err |-> "none", outcome |-> "self",
          split_ranges |-> <<>>]
    ELSE LET kbucket_index == get_kbucket_index(bs, contact.guid)
         IN IF kbucket_index = BadGUIDError
            THEN [buckets |-> bs, err |-> get_kbucket_index_err(contact.guid),
                  outcome |-> "none", split_ranges |-> <<>>]
            ELSE
            LET bucket == bs[kbucket_index + 1]
                known  == KBucket_get_contact(bucket, contact.guid) # <<>>
                added  == KBucket_add_contact(bucket, contact)
                bs1    == [bs EXCEPT ![kbucket_index + 1] = added.bucket]
            IN IF added.err = "none"
               THEN [buckets |-> bs1, err |-> "none",
                     outcome |-> IF known THEN "refreshed" ELSE "added",
                     split_ranges |-> <<>>]
               ELSE IF may_split(added.bucket, own)
               THEN LET split == CachingKBucket_split_kbucket(added.bucket, t)
                        bs2   == [bs1 EXCEPT ![kbucket_index + 1] = split.self]
                        bs3   == ListInsert(bs2, kbucket_index + 1,
                                            split.new_kbucket)
                    IN IF split.err # "none"
                       THEN [buckets |-> bs2, err |-> split.err,
                             outcome |-> "none", split_ranges |-> <<>>]
                       ELSE IF depth + 1 >= RecursionLimit
                       THEN [buckets |-> bs3, err |-> "RuntimeError",
                             outcome |-> "none",
                             split_ranges |-> <<RangeOf(added.bucket)>>]
                       ELSE LET retry == RoutingTable_add_contact(
                                             bs3, own, contact, t, depth + 1)
                            IN [retry EXCEPT !.split_ranges =
                                    <<RangeOf(added.bucket)>> \o @]
               ELSE [buckets |-> [bs1 EXCEPT ![kbucket_index + 1] =
                                      cache_contact(added.bucket, contact)],
                     err |-> "none", outcome |-> "cached",
                     split_ranges |-> <<>>]

\* remove_contact / remove_guid: locate the bucket, delegate.
RoutingTable_remove_contact(bs, contact) ==
    LET kbucket_index == get_kbucket_index(bs, contact.guid)
    IN IF kbucket_index = BadGUIDError
       THEN [buckets |-> bs, err |-> get_kbucket_index_err(contact.guid)]
       ELSE LET r == CachingKBucket_remove_contact(bs[kbucket_index + 1],
                                                   contact)
            IN [buckets |-> [bs EXCEPT ![kbucket_index + 1] = r.bucket],
                err |-> r.err]

RoutingTable_remove_guid(bs, guid) ==
    LET kbucket_index == get_kbucket_index(bs, guid)
    IN IF kbucket_index = BadGUIDError
       THEN [buckets |-> bs, err |-> get_kbucket_index_err(guid)]
       ELSE LET r == CachingKBucket_remove_guid(bs[kbucket_index + 1], guid)
            IN [buckets |-> [bs EXCEPT ![kbucket_index + 1] = r.bucket],
                err |-> r.err]

RoutingTable_get_contact(bs, guid) ==
    LET kbucket_index == get_kbucket_index(bs, guid)
    IN IF kbucket_index = BadGUIDError THEN <<>>
       ELSE KBucket_get_contact(bs[kbucket_index + 1], guid)

\* The error that leaves get_contact: that of _get_kbucket_by_guid.
RoutingTable_get_contact_err(bs, guid) ==
    IF get_kbucket_index(bs, guid) = BadGUIDError
    THEN get_kbucket_index_err(guid) ELSE "none"

RECURSIVE GenIndices_high_first(_, _, _)
\* Mutant of GenIndices: the bucket above is visited before the one below.
GenIndices_high_first(idx, offset, n) ==
    LET low  == idx - offset
        high == idx + offset
        lo   == IF low >= 0 THEN <<low>> ELSE <<>>
        hi   == IF high < n THEN <<high>> ELSE <<>>
    IN IF lo = <<>> /\ hi = <<>> THEN <<>>
       ELSE hi \o lo \o GenIndices_high_first(idx, offset + 1, n)

RECURSIVE GenIndices(_, _, _)
\* The while loop of gen_indices_closest_to_furthest from `offset` on,
\* n = len(self._buckets): the indices it yields until neither side is
\* inside the table.
GenIndices(idx, offset, n) ==
    LET low  == idx - offset
        high == idx + offset
        lo   == IF low >= 0 THEN <<low>> ELSE <<>>
        hi   == IF high < n THEN <<high>> ELSE <<>>
    IN IF lo = <<>> /\ hi = <<>> THEN <<>>
       ELSE lo \o hi \o GenIndices(idx, offset + 1, n)

gen_indices_closest_to_furthest(idx, n) == <<idx>> \o GenIndices(idx, 1, n)

RECURSIVE FindLoop_full_count(_, _, _, _, _)
\* Mutant of FindLoop: every bucket is asked for `count` contacts.
FindLoop_full_count(bs, indices, closest_nodes, count, sender_guid) ==
    IF indices = <<>> THEN closest_nodes
    ELSE LET bucket   == bs[Head(indices) + 1]
             extended == closest_nodes \o
                             KBucket_get_contacts(bucket, count, sender_guid)
         IN IF Len(extended) >= count THEN extended
            ELSE FindLoop_full_count(bs, Tail(indices), extended, count,
                                     sender_guid)

RECURSIVE FindLoop(_, _, _, _, _)
\* The for loop of find_close_nodes over the indices still to visit.
FindLoop(bs, indices, closest_nodes, count, sender_guid) ==
    IF indices = <<>> THEN closest_nodes
    ELSE LET bucket   == bs[Head(indices) + 1]
             extended == closest_nodes \o
                             KBucket_get_contacts(
                                 bucket, count - Len(closest_nodes),
                                 sender_guid)
         IN IF Len(extended) >= count THEN extended
            ELSE FindLoop(bs, Tail(indices), extended, count, sender_guid)

\* Returns the list of contacts and the error raised, if any.
find_close_nodes(bs, guid, count, sender_guid) ==
    LET index_of_closest_bucket == get_kbucket_index(bs, guid)
    IN IF index_of_closest_bucket = BadGUIDError
       THEN [closest_nodes |-> <<>>, err |-> get_kbucket_index_err(guid)]
       ELSE [closest_nodes |->
                 FindLoop(bs,
                          gen_indices_closest_to_furthest(
                              index_of_closest_bucket, Len(bs)),
                          <<>>, count, sender_guid),
             err |-> "none"]

\* KBucket.touch at time t.  RoutingTable never calls it.
touch(b, t) == [b EXCEPT !.last_accessed = t]

\* Mutant of random_guid_in_range: the upper limit is included (randint).
random_guid_in_range_inclusive(range_min, range_max) ==
    {num_to_guid(n) : n \in range_min..range_max}

\* util.random_guid_in_range: the guids random.randrange can produce.
random_guid_in_range(range_min, range_max) ==
    {num_to_guid(n) : n \in range_min..(range_max - 1)}

RECURSIVE RefreshLists(_)
\* The lists `[util.random_guid_in_range(b.range_min, b.range_max) for b in
\* buckets_to_refresh]` can be.
RefreshLists(buckets_to_refresh) ==
    IF buckets_to_refresh = <<>> THEN {<<>>}
    ELSE LET b     == Head(buckets_to_refresh)
             guids == random_guid_in_range(b.range_min, b.range_max)
             rests == RefreshLists(Tail(buckets_to_refresh))
         IN {<<g>> \o rest : g \in guids, rest \in rests}

\* The error that leaves get_refresh_list.  Without force the generator
\* calls bucket.is_stale() on the first bucket, a method no class of the
\* repository defines.
get_refresh_list_err(bs, force) ==
    IF force \/ bs = <<>> THEN "none" ELSE "AttributeError"

\* Returns the lists the call can return and the error raised.
get_refresh_list(bs, force) ==
    [lists |-> IF force THEN RefreshLists(bs)
               ELSE IF bs = <<>> THEN {<<>>} ELSE {},
     err |-> get_refresh_list_err(bs, force)]

\* ------------------------------------------------------------------------
\* The environment: the peers observed and the calls made
\* ------------------------------------------------------------------------
FarBase == Pow2(BIT_NODE_ID_LEN - 1)

\* The low identifiers 0 .. K + 2 (one more than fills a bucket, next to the
\* identifier 1) and K + CACHE_K + 1 identifiers of the high half (one more
\* than fills a bucket and its replacement cache).
NearPeers == K + 2 + ExtraPeers

FarPeers == K + CACHE_K + 1

PeerNums == (0 .. NearPeers) \cup (FarBase .. (FarBase + FarPeers - 1))

\* Peers seen a second time from another address.
MovedNums == {2}

\* test_routingtable.py: _make_contact_from_num
make_contact_from_num(i) == Contact("123.45.67.89", 12345, num_to_guid(i))

Contacts == {make_contact_from_num(n) : n \in PeerNums}
                \cup {Contact("98.76.54.32", 54321, num_to_guid(n)) : n \in MovedNums}

\* test_routingtable.py: own_num_guid = 1
own_num_guid == 1

\* An identifier of the high half, so that the bucket of own_guid is
\* neither the first nor the last bucket.
mid_num_guid == FarBase + 1

\* The threads that call add_contact at the same time.
Threads == {"a", "b"}

Idle == [pc |-> "idle"]

\* No call in progress, none has yet run while another was in progress, and
\* no bucket has been split whose range did not hold own_guid.
NoCalls == [frames |-> [t \in Threads |-> Idle], overlapped |-> FALSE,
            foreign_split |-> FALSE]

NewTable(own) ==
    /\ own_guid = own
    /\ now = 0
    /\ buckets = <<KBucketInit(0, Pow2(BIT_NODE_ID_LEN), 0)>>
    /\ err = "none"
    /\ observed = <<>>
    /\ calls = NoCalls

Init == NewTable(num_to_guid(own_num_guid))

InitMid == NewTable(num_to_guid(mid_num_guid))

AddContact(c) ==
    LET r == RoutingTable_add_contact(buckets, own_guid, c, now, 0)
    IN /\ buckets' = r.buckets
       /\ err' = r.err
       /\ UNCHANGED <<own_guid, now, observed, calls>>

RemoveContact(c) ==
    LET r == RoutingTable_remove_contact(buckets, c)
    IN /\ buckets' = r.buckets
       /\ err' = r.err
       /\ UNCHANGED <<own_guid, now, observed, calls>>

RemoveGuid(g) ==
    LET r == RoutingTable_remove_guid(buckets, g)
    IN /\ buckets' = r.buckets
       /\ err' = r.err
       /\ UNCHANGED <<own_guid, now, observed, calls>>

Next ==
    \/ \E c \in Contacts : AddContact(c)
    \/ \E c \in Contacts : RemoveContact(c)
    \/ \E n \in PeerNums : RemoveGuid(num_to_guid(n))

Spec == Init /\ [][Next]_vars

SpecMid == InitMid /\ [][Next]_vars

\* A smaller population for the tables that are asked lookups: K + 1 peers
\* of the low half and the first K + 3 identifiers of the high half, which
\* spread over the buckets on both sides of the bucket of mid_num_guid.
LookupNums ==
    (0 .. K) \cup (FarBase .. (FarBase + K + 2 + ExtraPeers))

LookupContacts == {make_contact_from_num(n) : n \in LookupNums}

NextLookup ==
    \/ \E c \in LookupContacts : AddContact(c)
    \/ \E c \in LookupContacts : RemoveContact(c)
    \/ \E n \in LookupNums : RemoveGuid(num_to_guid(n))

SpecLookup == InitMid /\ [][NextLookup]_vars

\* The population for the calls on single buckets: two peers next to
\* own_num_guid, one of them also seen from another address, and one more
\* peer of the high half than a bucket and its replacement cache hold.
CacheNums ==
    {0} \cup MovedNums
        \cup (FarBase .. (FarBase + K + CACHE_K + ExtraPeers))

CacheContacts ==
    {make_contact_from_num(n) : n \in CacheNums}
        \cup {Contact("98.76.54.32", 54321, num_to_guid(n)) : n \in MovedNums}

NextCache ==
    \/ \E c \in CacheContacts : AddContact(c)
    \/ \E c \in CacheContacts : RemoveContact(c)
    \/ \E n \in CacheNums : RemoveGuid(num_to_guid(n))

SpecCache == Init /\ [][NextCache]_vars

\* ------------------------------------------------------------------------
\* The table under a clock: time passes between the calls, and the read
\* operations are calls of their own.
\* ------------------------------------------------------------------------
\* The clock stops at this value.
MaxNow == 2

ClockNums == {0, 2, 3} \cup (FarBase .. (FarBase + K))

ClockContacts == {make_contact_from_num(n) : n \in ClockNums}

Tick ==
    /\ now < MaxNow
    /\ now' = now + 1
    /\ UNCHANGED <<own_guid, buckets, err, observed, calls>>

GetContact(guid) ==
    /\ err' = RoutingTable_get_contact_err(buckets, guid)
    /\ UNCHANGED <<own_guid, buckets, now, observed, calls>>

GetRefreshList(force) ==
    /\ err' = get_refresh_list_err(buckets, force)
    /\ UNCHANGED <<own_guid, buckets, now, observed, calls>>

NextClock ==
    \/ \E c \in ClockContacts : AddContact(c)
    \/ \E n \in ClockNums : RemoveGuid(num_to_guid(n))
    \/ \E n \in ClockNums : GetContact(num_to_guid(n))
    \/ \E force \in BOOLEAN : GetRefreshList(force)
    \/ Tick

SpecClock == Init /\ [][NextClock]_vars

\* ------------------------------------------------------------------------
\* The table with the history of the observations: `observed` lists the
\* guids handed to add_contact, each once, the latest observation last.
\* ------------------------------------------------------------------------
FreshNums == {0, 2} \cup (FarBase .. (FarBase + K))

FreshContacts == {make_contact_from_num(n) : n \in FreshNums}

ObserveContact(c) ==
    LET r == RoutingTable_add_contact(buckets, own_guid, c, now, 0)
    IN /\ buckets' = r.buckets
       /\ err' = r.err
       /\ observed' = Append(SelectSeq(observed, LAMBDA g : g # c.guid),
                             c.guid)
       /\ UNCHANGED <<own_guid, now, calls>>

NextFresh ==
    \/ \E c \in FreshContacts : ObserveContact(c)
    \/ \E n \in FreshNums : RemoveGuid(num_to_guid(n))

SpecFresh == Init /\ [][NextFresh]_vars

\* ------------------------------------------------------------------------
\* Tables of every own_guid: own_guid = util.num_to_guid(own_num_guid) for
\* each number of the identifier space, and a few peers.
\* ------------------------------------------------------------------------
GuidNums == {0, FarBase + K, Pow2(BIT_NODE_ID_LEN) - 1}

InitGuid ==
    \E n \in 0..(Pow2(BIT_NODE_ID_LEN) - 1) : NewTable(num_to_guid(n))

NextGuid ==
    \/ \E n \in GuidNums : AddContact(make_contact_from_num(n))
    \/ \E n \in GuidNums : RemoveGuid(num_to_guid(n))

SpecGuid == InitGuid /\ [][NextGuid]_vars

\* ------------------------------------------------------------------------
\* add_contact called by two threads: a call is a frame that moves from
\* statement to statement, and the other thread may run between locating
\* the bucket, adding to it, splitting it and inserting the new bucket.
\* The local `bucket` is a reference to the bucket object, which stays the
\* same object when the list grows; an object is known by its range_min,
\* which no operation changes and no two buckets share.
\* ------------------------------------------------------------------------
ConcNums == {2} \cup (FarBase .. (FarBase + K))

ConcContacts == {make_contact_from_num(n) : n \in ConcNums}

Frame(t) == calls.frames[t]

SetFrame(t, frame) == [calls EXCEPT !.frames[t] = frame]

\* The place in the list of the bucket object the frame refers to.
BucketOf(frame) ==
    CHOOSE i \in 1..Len(buckets) : buckets[i].range_min = frame.bucket

\* Mutant of insert_index: the new bucket is put before the split one.
insert_index_before(frame) == frame.kbucket_index

\* `self._buckets.insert(kbucket_index + 1, new_kbucket)`
insert_index(frame) == frame.kbucket_index + 1

\* add_contact is entered: `if contact.guid == self.own_guid: return`.
Enter(t, c) ==
    /\ Frame(t).pc = "idle"
    /\ calls' =
          IF adding_self(own_guid, c) THEN calls
          ELSE [frames |-> [calls.frames EXCEPT
                               ![t] = [pc |-> "locate", contact |-> c]],
                overlapped |->
                    \/ calls.overlapped
                    \/ \E u \in Threads \ {t} : Frame(u).pc # "idle",
                foreign_split |-> calls.foreign_split]
    /\ err' = "none"
    /\ UNCHANGED <<own_guid, buckets, now, observed>>

\* kbucket_index = self._get_kbucket_index(contact.guid)
\* bucket = self._buckets[kbucket_index]
Locate(t) ==
    LET frame         == Frame(t)
        kbucket_index == get_kbucket_index(buckets, frame.contact.guid)
    IN /\ frame.pc = "locate"
       /\ IF kbucket_index = BadGUIDError
          THEN /\ calls' = SetFrame(t, Idle)
               /\ err' = get_kbucket_index_err(frame.contact.guid)
          ELSE /\ calls' = SetFrame(t,
                     [pc |-> "add", contact |-> frame.contact,
                      kbucket_index |-> kbucket_index,
                      bucket |-> buckets[kbucket_index + 1].range_min])
               /\ err' = err
       /\ UNCHANGED <<own_guid, buckets, now, observed>>

\* bucket.add_contact(contact), and the FullBucketError it may raise.
AddToBucket(t) ==
    LET frame == Frame(t)
        i     == BucketOf(frame)
        added == KBucket_add_contact(buckets[i], frame.contact)
    IN /\ frame.pc = "add"
       /\ IF added.err = "none"
          THEN /\ buckets' = [buckets EXCEPT ![i] = added.bucket]
               /\ calls' = SetFrame(t, Idle)
               /\ err' = "none"
          ELSE /\ buckets' = buckets
               /\ calls' = SetFrame(t, [frame EXCEPT !.pc = "full"])
               /\ err' = err
       /\ UNCHANGED <<own_guid, now, observed>>

\* The handler of FullBucketError: `if bucket.guid_in_range(self.own_guid)`,
\* and bucket.cache_contact(contact) when it is false.
TestRange(t) ==
    LET frame == Frame(t)
        i     == BucketOf(frame)
    IN /\ frame.pc = "full"
       /\ IF may_split(buckets[i], own_guid)
          THEN /\ buckets' = buckets
               /\ calls' = SetFrame(t, [frame EXCEPT !.pc = "split"])
               /\ err' = err
          ELSE /\ buckets' = [buckets EXCEPT
                                 ![i] = cache_contact(@, frame.contact)]
               /\ calls' = SetFrame(t, Idle)
               /\ err' = "none"
       /\ UNCHANGED <<own_guid, now, observed>>

\* new_kbucket = bucket.split_kbucket()
SplitBucket(t) ==
    LET frame == Frame(t)
        i     == BucketOf(frame)
        split == CachingKBucket_split_kbucket(buckets[i], now)
        after == [calls EXCEPT !.foreign_split =
                     @ \/ ~guid_in_range(buckets[i], own_guid)]
    IN /\ frame.pc = "split"
       /\ IF split.err # "none"
          THEN /\ buckets' = buckets
               /\ calls' = [after EXCEPT !.frames[t] = Idle]
               /\ err' = split.err
          ELSE /\ buckets' = [buckets EXCEPT ![i] = split.self]
               /\ calls' = [after EXCEPT !.frames[t] =
                     [pc |-> "insert", contact |-> frame.contact,
                      kbucket_index |-> frame.kbucket_index,
                      bucket |-> frame.bucket,
                      new_kbucket |-> split.new_kbucket]]
               /\ err' = err
       /\ UNCHANGED <<own_guid, now, observed>>

\* self._buckets.insert(kbucket_index + 1, new_kbucket), then the call of
\* self.add_contact(contact), which starts over.
InsertBucket(t) ==
    LET frame == Frame(t)
    IN /\ frame.pc = "insert"
       /\ buckets' = ListInsert(buckets, insert_index(frame),
                                frame.new_kbucket)
       /\ calls' = SetFrame(t, [pc |-> "locate", contact |-> frame.contact])
       /\ UNCHANGED <<own_guid, now, err, observed>>

NextThreads ==
    \/ \E t \in Threads, c \in ConcContacts : Enter(t, c)
    \/ \E t \in Threads : Locate(t)
    \/ \E t \in Threads : AddToBucket(t)
    \/ \E t \in Threads : TestRange(t)
    \/ \E t \in Threads : SplitBucket(t)
    \/ \E t \in Threads : InsertBucket(t)

\* The node's own identifier is the one of the tests, or one of the high
\* half of the bucket the contacts fall into.
ThreadsOwn == {own_num_guid, FarBase + K + 1}

InitThreads == \E n \in ThreadsOwn : NewTable(num_to_guid(n))

SpecThreads == InitThreads /\ [][NextThreads]_vars

\* ------------------------------------------------------------------------
\* get_contact, find_close_nodes and get_refresh_list called by two
\* threads, statement by statement; add_contact and remove_guid run only
\* while no query is in progress.  A frame keeps the arguments, the locals
\* and, as `start`, the table the query found when it was called; a frame
\* at "done" keeps the value returned.
\* ------------------------------------------------------------------------
QueryNums == {2} \cup (FarBase .. (FarBase + K))

QueryContacts == {make_contact_from_num(n) : n \in QueryNums}

QueryTargets == {num_to_guid(0), num_to_guid(FarBase + 1)}

QueryCounts == {K, K + 1}

QuerySenders == {None, num_to_guid(FarBase + 1)}

Starts(t) ==
    [calls EXCEPT !.overlapped =
        @ \/ \E u \in Threads \ {t} : Frame(u).pc \notin {"idle", "done"}]

\* Mutant of remaining: every bucket is asked for `count` contacts.
remaining_full_count(frame) == frame.count

\* `count - len(closest_nodes)`
remaining(frame) == frame.count - Len(frame.closest_nodes)

\* add_contact while no query is in progress.
QuietAddContact(c) ==
    LET r == RoutingTable_add_contact(buckets, own_guid, c, now, 0)
    IN /\ \A t \in Threads : Frame(t).pc = "idle"
       /\ buckets' = r.buckets
       /\ err' = r.err
       /\ UNCHANGED <<own_guid, now, observed, calls>>

\* remove_guid while no query is in progress.
QuietRemoveGuid(g) ==
    LET r == RoutingTable_remove_guid(buckets, g)
    IN /\ \A t \in Threads : Frame(t).pc = "idle"
       /\ buckets' = r.buckets
       /\ err' = r.err
       /\ UNCHANGED <<own_guid, now, observed, calls>>

\* get_contact: bucket = self._get_kbucket_by_guid(guid)
CallGetContact(t, guid) ==
    LET kbucket_index == get_kbucket_index(buckets, guid)
    IN /\ Frame(t).pc = "idle"
       /\ IF kbucket_index = BadGUIDError
          THEN /\ calls' = calls
               /\ err' = get_kbucket_index_err(guid)
          ELSE /\ calls' = [Starts(t) EXCEPT !.frames[t] =
                     [pc |-> "get_contact", guid |-> guid,
                      kbucket_index |-> kbucket_index, start |-> buckets]]
               /\ err' = "none"
       /\ UNCHANGED <<own_guid, buckets, now, observed>>

\* get_contact: return bucket.get_contact(guid)
ReturnGetContact(t) ==
    LET frame == Frame(t)
    IN /\ frame.pc = "get_contact"
       /\ calls' = SetFrame(t,
             [pc |-> "done", call |-> "get_contact", guid |-> frame.guid,
              start |-> frame.start,
              result |-> KBucket_get_contact(
                             buckets[frame.kbucket_index + 1], frame.guid)])
       /\ UNCHANGED <<own_guid, buckets, now, err, observed>>

\* find_close_nodes up to the for loop.
CallFindCloseNodes(t, guid, count, sender_guid) ==
    LET index_of_closest_bucket == get_kbucket_index(buckets, guid)
    IN /\ Frame(t).pc = "idle"
       /\ IF index_of_closest_bucket = BadGUIDError
          THEN /\ calls' = calls
               /\ err' = get_kbucket_index_err(guid)
          ELSE /\ calls' = [Starts(t) EXCEPT !.frames[t] =
                     [pc |-> "find_close_nodes", guid |-> guid,
                      count |-> count, sender_guid |-> sender_guid,
                      indices |-> gen_indices_closest_to_furthest(
                                      index_of_closest_bucket, Len(buckets)),
                      closest_nodes |-> <<>>, start |-> buckets]]
               /\ err' = "none"
       /\ UNCHANGED <<own_guid, buckets, now, observed>>

\* One turn of the for loop of find_close_nodes, and the return after it.
VisitBucket(t) ==
    LET frame    == Frame(t)
        extended ==
            IF frame.indices = <<>> THEN frame.closest_nodes
            ELSE frame.closest_nodes \o
                     KBucket_get_contacts(buckets[Head(frame.indices) + 1],
                                          remaining(frame),
                                          frame.sender_guid)
    IN /\ frame.pc = "find_close_nodes"
       /\ calls' = SetFrame(t,
             IF frame.indices = <<>> \/ Len(extended) >= frame.count
             THEN [pc |-> "done", call |-> "find_close_nodes",
                   guid |-> frame.guid, count |-> frame.count,
                   sender_guid |-> frame.sender_guid,
                   start |-> frame.start, result |-> extended]
             ELSE [frame EXCEPT !.indices = Tail(@),
                                !.closest_nodes = extended])
       /\ UNCHANGED <<own_guid, buckets, now, err, observed>>

\* get_refresh_list up to the list comprehension; without force the
\* generator raises on its first bucket.
CallGetRefreshList(t, force) ==
    /\ Frame(t).pc = "idle"
    /\ IF get_refresh_list_err(buckets, force) # "none"
       THEN /\ calls' = calls
            /\ err' = get_refresh_list_err(buckets, force)
       ELSE /\ calls' = [Starts(t) EXCEPT !.frames[t] =
                  [pc |-> "get_refresh_list", next |-> 1, ranges |-> <<>>,
                   start |-> buckets]]
            /\ err' = "none"
    /\ UNCHANGED <<own_guid, buckets, now, observed>>

\* One turn of the list comprehension of get_refresh_list, and the return.
\* The frame keeps the ranges handed to util.random_guid_in_range, also as
\* its result: the list returned is any list of guids drawn from them.
RefreshBucket(t) ==
    LET frame == Frame(t)
    IN /\ frame.pc = "get_refresh_list"
       /\ calls' = SetFrame(t,
             IF frame.next > Len(buckets)
             THEN [pc |-> "done", call |-> "get_refresh_list",
                   start |-> frame.start,
                   result |-> frame.ranges]
             ELSE [frame EXCEPT
                      !.next = @ + 1,
                      !.ranges = Append(@, RangeOf(buckets[frame.next]))])
       /\ UNCHANGED <<own_guid, buckets, now, err, observed>>

\* The caller takes the value returned.
TakeResult(t) ==
    /\ Frame(t).pc = "done"
    /\ calls' = SetFrame(t, Idle)
    /\ UNCHANGED <<own_guid, buckets, now, err, observed>>

NextQuery ==
    \/ \E c \in QueryContacts : QuietAddContact(c)
    \/ \E n \in QueryNums : QuietRemoveGuid(num_to_guid(n))
    \/ \E t \in Threads, guid \in QueryTargets : CallGetContact(t, guid)
    \/ \E t \in Threads : ReturnGetContact(t)
    \/ \E t \in Threads, guid \in QueryTargets, count \in QueryCounts,
          sender_guid \in QuerySenders :
              CallFindCloseNodes(t, guid, count, sender_guid)
    \/ \E t \in Threads : VisitBucket(t)
    \/ \E t \in Threads, force \in BOOLEAN : CallGetRefreshList(t, force)
    \/ \E t \in Threads : RefreshBucket(t)
    \/ \E t \in Threads : TakeResult(t)

SpecQuery == Init /\ [][NextQuery]_vars

\* ------------------------------------------------------------------------
\* A CachingKBucket on its own: its public operations applied in any order
\* to a new bucket (test_kbucket.py).  `buckets` then holds the bucket and
\* the buckets split off it.  The caller hands a bucket only contacts of
\* its range.
\* ------------------------------------------------------------------------
\* The buckets in existence: splits stop at this number.
MaxBuckets == 2

BucketNums == {2, 3, FarBase, FarBase + 1}

BucketContacts ==
    {make_contact_from_num(n) : n \in BucketNums}
        \cup {Contact("98.76.54.32", 54321, num_to_guid(n)) : n \in MovedNums}

BucketAddContact(i, c) ==
    LET r == KBucket_add_contact(buckets[i], c)
    IN /\ contact_in_range(buckets[i], c)
       /\ buckets' = [buckets EXCEPT ![i] = r.bucket]
       /\ err' = r.err
       /\ UNCHANGED <<own_guid, now, observed, calls>>

BucketCacheContact(i, c) ==
    /\ contact_in_range(buckets[i], c)
    /\ buckets' = [buckets EXCEPT ![i] = cache_contact(buckets[i], c)]
    /\ err' = "none"
    /\ UNCHANGED <<own_guid, now, observed, calls>>

BucketRemoveContact(i, c) ==
    LET r == CachingKBucket_remove_contact(buckets[i], c)
    IN /\ buckets' = [buckets EXCEPT ![i] = r.bucket]
       /\ err' = r.err
       /\ UNCHANGED <<own_guid, now, observed, calls>>

BucketRemoveGuid(i, g) ==
    LET r == CachingKBucket_remove_guid(buckets[i], g)
    IN /\ buckets' = [buckets EXCEPT ![i] = r.bucket]
       /\ err' = r.err
       /\ UNCHANGED <<own_guid, now, observed, calls>>

BucketFillFromCache(i) ==
    LET r == fill_from_cache(buckets[i])
    IN /\ buckets' = [buckets EXCEPT ![i] = r.bucket]
       /\ err' = r.err
       /\ UNCHANGED <<own_guid, now, observed, calls>>

BucketSplit(i) ==
    LET r == CachingKBucket_split_kbucket(buckets[i], now)
    IN /\ Len(buckets) < MaxBuckets
       /\ buckets' = IF r.err = "none"
                     THEN ListInsert([buckets EXCEPT ![i] = r.self], i,
                                     r.new_kbucket)
                     ELSE buckets
       /\ err' = r.err
       /\ UNCHANGED <<own_guid, now, observed, calls>>

BucketIndices == 1..Len(buckets)

NextBucket ==
    \/ \E i \in BucketIndices, c \in BucketContacts : BucketAddContact(i, c)
    \/ \E i \in BucketIndices, c \in BucketContacts : BucketCacheContact(i, c)
    \/ \E i \in BucketIndices, c \in BucketContacts :
            BucketRemoveContact(i, c)
    \/ \E i \in BucketIndices, n \in BucketNums :
            BucketRemoveGuid(i, num_to_guid(n))
    \/ \E i \in BucketIndices : BucketFillFromCache(i)
    \/ \E i \in BucketIndices : BucketSplit(i)

SpecBucket == Init /\ [][NextBucket]_vars

\* ------------------------------------------------------------------------
\* Vocabulary of the properties
\* ------------------------------------------------------------------------
GuidsOf(seq) == {seq[i].guid : i \in 1..Len(seq)}

StoredGuids(bs) ==
    UNION {GuidsOf(bs[i].contacts) \cup GuidsOf(bs[i].replacement_cache) :
               i \in 1..Len(bs)}

RECURSIVE StoredCount(_)
StoredCount(bs) ==
    IF bs = <<>> THEN 0
    ELSE Len(Head(bs).contacts) + Len(Head(bs).replacement_cache)
            + StoredCount(Tail(bs))

\* 1-based position of the bucket the table holds responsible for guid.
Responsible(bs, guid) == get_kbucket_index(bs, guid) + 1

\* The result of add_contact(c) called in the current state.
AddResult(c) == RoutingTable_add_contact(buckets, own_guid, c, now, 0)

RECURSIVE Log2Floor(_)
Log2Floor(n) == IF n < 2 THEN 0 ELSE 1 + Log2Floor(n \div 2)

RECURSIVE AddInOrder(_, _, _, _)
\* The bucket list after add_contact of the guids from .. to, in this order.
AddInOrder(bs, own, from, to) ==
    IF from > to THEN bs
    ELSE AddInOrder(
             RoutingTable_add_contact(bs, own, make_contact_from_num(from),
                                      now, 0).buckets,
             own, from + 1, to)

\* ------------------------------------------------------------------------
\* C1: the bucket ranges are a contiguous non-overlapping cover of
\* [0, 2^BIT_NODE_ID_LEN): the first range starts at 0, the last ends at
\* 2^BIT_NODE_ID_LEN, no range is empty and each range ends where the next
\* starts.
C1_PartitionInvariant ==
    /\ Len(buckets) >= 1
    /\ buckets[1].range_min = 0
    /\ buckets[Len(buckets)].range_max = Pow2(BIT_NODE_ID_LEN)
    /\ \A i \in 1..Len(buckets) : buckets[i].range_min < buckets[i].range_max
    /\ \A i \in 1..(Len(buckets) - 1) :
           buckets[i].range_max = buckets[i + 1].range_min

\* The bucket of own_guid was split with buckets on both of its sides.
C1_Witness ==
    /\ Len(buckets) = 4
    /\ guid_in_range(buckets[2], own_guid)

\* ------------------------------------------------------------------------
\* C2: FullBucketError never leaves the routing table: in every reachable
\* state, add_contact, remove_contact and remove_guid return normally for
\* every contact with a valid identifier, and the last call returned
\* normally.
C2_BucketFullNeverEscapes ==
    /\ err = "none"
    /\ \A c \in Contacts :
          /\ AddResult(c).err = "none"
          /\ RoutingTable_remove_contact(buckets, c).err = "none"
          /\ RoutingTable_remove_guid(buckets, c.guid).err = "none"

\* A bucket refused a contact and cached it, after a split; a removal
\* from that bucket now refills it from two cached contacts.
C2_Witness ==
    /\ Len(buckets) >= 2
    /\ \E i \in 1..Len(buckets) :
          /\ Len(buckets[i].contacts) = K
          /\ Len(buckets[i].replacement_cache) = CACHE_K

\* ------------------------------------------------------------------------
\* C3: every contact of a bucket, in its main list or in its replacement
\* cache, has a guid inside the range of that bucket.
C3_ContactsInRange ==
    \A i \in 1..Len(buckets) :
        /\ \A j \in 1..Len(buckets[i].contacts) :
               LET n == guid_to_num(buckets[i].contacts[j].guid)
               IN buckets[i].range_min <= n /\ n < buckets[i].range_max
        /\ \A j \in 1..Len(buckets[i].replacement_cache) :
               LET n == guid_to_num(buckets[i].replacement_cache[j].guid)
               IN buckets[i].range_min <= n /\ n < buckets[i].range_max

\* Three split-off buckets hold contacts, one of them cached contacts too.
C3_Witness ==
    /\ Len(buckets) >= 3
    /\ Cardinality({i \in 1..Len(buckets) : buckets[i].contacts # <<>>}) >= 3
    /\ \E i \in 1..Len(buckets) : buckets[i].replacement_cache # <<>>

\* ------------------------------------------------------------------------
\* C4: the table never stores own_guid: no main list and no cache holds
\* it, get_contact(own_guid) returns none, and add_contact of a contact
\* with guid = own_guid leaves the whole table unchanged.
C4_NeverStoresOwnGuid ==
    /\ own_guid \notin StoredGuids(buckets)
    /\ RoutingTable_get_contact(buckets, own_guid) = <<>>
    /\ \A c \in Contacts :
          c.guid = own_guid =>
              /\ AddResult(c).buckets = buckets
              /\ AddResult(c).err = "none"

\* own_guid is one of the observed peers, and the bucket responsible for
\* it has room for one more contact while other contacts are stored.
C4_Witness ==
    /\ \E c \in Contacts : c.guid = own_guid
    /\ Len(buckets) >= 2
    /\ StoredCount(buckets) >= K + 1
    /\ Len(buckets[Responsible(buckets, own_guid)].contacts) < K

\* ------------------------------------------------------------------------
\* C5: every main list has at most K contacts and every replacement cache
\* at most CACHE_K contacts.
C5_CapacityBounds ==
    \A i \in 1..Len(buckets) :
        /\ Len(buckets[i].contacts) <= K
        /\ Len(buckets[i].replacement_cache) <= CACHE_K

\* A full bucket with a full cache, which one more peer can still overflow.
C5_Witness ==
    \E i \in 1..Len(buckets) :
        /\ Len(buckets[i].contacts) = K
        /\ Len(buckets[i].replacement_cache) = CACHE_K
        /\ \E c \in Contacts :
              /\ Responsible(buckets, c.guid) = i
              /\ c.guid \notin StoredGuids(buckets)
              /\ c.guid # own_guid

\* ------------------------------------------------------------------------
\* C6: add_contact(c), c.guid # own_guid, loses and duplicates nothing:
\* the guids stored afterwards are those stored before plus c.guid, minus
\* at most one guid, which was the oldest entry of a replacement cache
\* holding CACHE_K entries; every stored guid is stored once; and when the
\* call splits a bucket the number of stored contacts does not drop.
C6_AddLosesNothing ==
    \A c \in Contacts :
        c.guid # own_guid =>
            LET r      == AddResult(c)
                stored == StoredGuids(buckets)
                after  == StoredGuids(r.buckets)
                lost   == (stored \cup {c.guid}) \ after
            IN /\ after \subseteq stored \cup {c.guid}
               /\ c.guid \in after
               /\ Cardinality(lost) <= 1
               /\ \A g \in lost :
                      \E i \in 1..Len(buckets) :
                          /\ Len(buckets[i].replacement_cache) = CACHE_K
                          /\ buckets[i].replacement_cache[1].guid = g
               /\ StoredCount(r.buckets) = Cardinality(after)
               /\ r.split_ranges # <<>> =>
                      StoredCount(r.buckets) >= StoredCount(buckets)

\* After splits, a table from which one observed peer is added by a
\* further split and another evicts the oldest entry of a full cache.
C6_Witness ==
    /\ Len(buckets) >= 2
    /\ \E c \in Contacts :
          /\ AddResult(c).split_ranges # <<>>
          /\ StoredCount(AddResult(c).buckets) = StoredCount(buckets) + 1
    /\ \E c \in Contacts :
          /\ c.guid # own_guid
          /\ StoredGuids(buckets) \ StoredGuids(AddResult(c).buckets) # {}

\* ------------------------------------------------------------------------
\* C7: when the bucket responsible for c.guid is full, does not hold
\* c.guid in its main list and does not contain own_guid in its range,
\* add_contact(c) changes neither the number of buckets nor any range nor
\* any main list nor the cache of any other bucket, and c becomes the tail
\* of that bucket's replacement cache and is not in its main list.
C7_CacheOnOverflow ==
    \A c \in Contacts :
        LET i == Responsible(buckets, c.guid)
            r == AddResult(c)
        IN (/\ c.guid # own_guid
            /\ Len(buckets[i].contacts) = K
            /\ c.guid \notin GuidsOf(buckets[i].contacts)
            /\ ~guid_in_range(buckets[i], own_guid))
           => /\ r.err = "none"
              /\ Len(r.buckets) = Len(buckets)
              /\ \A j \in 1..Len(buckets) :
                     /\ r.buckets[j].range_min = buckets[j].range_min
                     /\ r.buckets[j].range_max = buckets[j].range_max
                     /\ r.buckets[j].contacts = buckets[j].contacts
                     /\ j # i => r.buckets[j].replacement_cache
                                     = buckets[j].replacement_cache
              /\ r.buckets[i].replacement_cache # <<>>
              /\ r.buckets[i].replacement_cache[
                     Len(r.buckets[i].replacement_cache)] = c
              /\ c.guid \notin GuidsOf(r.buckets[i].contacts)

\* A full bucket away from own_guid has cached a contact, and a peer it
\* has not cached yet is observed in its range.
C7_Witness ==
    \E c \in Contacts :
        LET i == Responsible(buckets, c.guid)
        IN /\ c.guid # own_guid
           /\ Len(buckets[i].contacts) = K
           /\ c.guid \notin GuidsOf(buckets[i].contacts)
           /\ ~guid_in_range(buckets[i], own_guid)
           /\ buckets[i].replacement_cache # <<>>
           /\ c.guid \notin GuidsOf(buckets[i].replacement_cache)

\* ------------------------------------------------------------------------
\* C8: only the bucket whose range contains own_guid is ever split.
\* Every bucket that add_contact splits contains own_guid at the moment
\* of the split, and in every step the range of each bucket that does not
\* contain own_guid is kept: the buckets before the bucket of own_guid keep
\* their ranges and positions, those after it keep their ranges and move up
\* by the number of new buckets, and the new buckets tile the former range
\* of the bucket of own_guid.
C8_SplitsContainOwn ==
    \A c \in Contacts :
        \A k \in 1..Len(AddResult(c).split_ranges) :
            /\ AddResult(c).split_ranges[k].range_min <= guid_to_num(own_guid)
            /\ guid_to_num(own_guid) < AddResult(c).split_ranges[k].range_max

C8_RangesPersist ==
    LET o == Responsible(buckets, own_guid)
        d == Len(buckets') - Len(buckets)
    IN /\ d >= 0
       /\ \A i \in 1..Len(buckets) :
              /\ i < o => RangeOf(buckets'[i]) = RangeOf(buckets[i])
              /\ i > o => RangeOf(buckets'[i + d]) = RangeOf(buckets[i])
       /\ buckets'[o].range_min = buckets[o].range_min
       /\ buckets'[o + d].range_max = buckets[o].range_max

\* C8: both parts, in every state and in every step of every behaviour.
C8_OnlyOwnBucketSplit == []C8_SplitsContainOwn /\ [][C8_RangesPersist]_vars

\* The bucket of own_guid was split twice, and a bucket away from own_guid
\* overflowed into its cache instead of being split.
C8_Witness ==
    /\ Len(buckets) >= 3
    /\ \E i \in 1..Len(buckets) :
          /\ ~guid_in_range(buckets[i], own_guid)
          /\ buckets[i].replacement_cache # <<>>

\* ------------------------------------------------------------------------
\* C9: add_contact terminates: from every reachable table and for every
\* observed contact the call ends without error (no failed assertion, no
\* recursion limit) after at most BIT_NODE_ID_LEN splits, the table never
\* has more than BIT_NODE_ID_LEN + 1 buckets, and the contact ends as the
\* tail of a main list or as the tail of a replacement cache.
C9_AddTerminates ==
    /\ Len(buckets) - 1 <= BIT_NODE_ID_LEN
    /\ \A c \in Contacts :
          LET r == AddResult(c)
              i == Responsible(r.buckets, c.guid)
          IN /\ r.err = "none"
             /\ Len(r.split_ranges) <= BIT_NODE_ID_LEN
             /\ Len(r.buckets) - 1 <= BIT_NODE_ID_LEN
             /\ c.guid # own_guid =>
                   \/ /\ r.outcome \in {"added", "refreshed"}
                      /\ r.buckets[i].contacts # <<>>
                      /\ r.buckets[i].contacts[Len(r.buckets[i].contacts)] = c
                   \/ /\ r.outcome = "cached"
                      /\ r.buckets[i].replacement_cache # <<>>
                      /\ r.buckets[i].replacement_cache[
                             Len(r.buckets[i].replacement_cache)] = c

\* A table that was split already and from which one add_contact still
\* has to split twice before the contact fits.
C9_Witness ==
    /\ Len(buckets) >= 2
    /\ \E c \in Contacts :
          /\ Len(AddResult(c).split_ranges) >= 2
          /\ AddResult(c).outcome = "added"

\* ------------------------------------------------------------------------
\* C10: on a new table with own_guid = 1 and K >= 2, adding the guids
\* 2, 3, ..., K + 1 in this order leaves a single bucket, and the
\* add_contact of K + 2 that follows performs all of the splits: it leaves
\* exactly BIT_NODE_ID_LEN - floor(log2(K + 2)) + 1 buckets and K + 2 is
\* the tail of a main list.
C10_Buckets == BIT_NODE_ID_LEN - Log2Floor(K + 2) + 1

C10_Before ==
    AddInOrder(<<KBucketInit(0, Pow2(BIT_NODE_ID_LEN), now)>>,
               num_to_guid(1), 2, K + 1)

\* C10: the add_contact of K + 2 on the table holding 2 .. K + 1 makes all
\* of the splits and leaves C10_Buckets buckets.
C10_MaxRecursion ==
    (/\ K >= 2
     /\ own_guid = num_to_guid(1)
     /\ buckets = C10_Before)
    => LET last == make_contact_from_num(K + 2)
           r    == AddResult(last)
           i    == Responsible(r.buckets, last.guid)
       IN /\ Len(buckets) = 1
          /\ r.err = "none"
          /\ Len(r.buckets) = C10_Buckets
          /\ Len(r.split_ranges) = C10_Buckets - 1
          /\ r.outcome = "added"
          /\ r.buckets[i].contacts[Len(r.buckets[i].contacts)] = last

\* The table after the guids 2 .. K + 2 were added in order to a new table.
C10_Witness ==
    /\ own_guid = num_to_guid(1)
    /\ buckets = RoutingTable_add_contact(
                     C10_Before, own_guid, make_contact_from_num(K + 2),
                     now, 0).buckets
    /\ Len(buckets) = C10_Buckets

\* ------------------------------------------------------------------------
\* C11: refresh of a known guid.  When the main list of the bucket
\* responsible for c.guid already holds a contact with c.guid, add_contact(c)
\* (on the bucket, and through the table) succeeds; afterwards that main
\* list is the other contacts in their former order followed by c itself,
\* its length is unchanged, no bucket is split, nothing is cached and every
\* other bucket is as before, also when the main list was full.
C11_RefreshKnownGuid ==
    \A c \in Contacts :
        LET i == Responsible(buckets, c.guid)
            b == buckets[i]
        IN c.guid \in GuidsOf(b.contacts) =>
              LET kb     == KBucket_add_contact(b, c)
                  r      == AddResult(c)
                  others == SelectSeq(b.contacts, LAMBDA d : d.guid # c.guid)
              IN /\ kb.err = "none"
                 /\ kb.bucket.contacts = Append(others, c)
                 /\ Len(kb.bucket.contacts) = Len(b.contacts)
                 /\ kb.bucket.replacement_cache = b.replacement_cache
                 /\ r.err = "none"
                 /\ r.split_ranges = <<>>
                 /\ Len(r.buckets) = Len(buckets)
                 /\ r.buckets[i].contacts = Append(others, c)
                 /\ Len(r.buckets[i].contacts) = Len(b.contacts)
                 /\ RangeOf(r.buckets[i]) = RangeOf(b)
                 /\ \A j \in 1..Len(buckets) :
                        /\ r.buckets[j].replacement_cache
                               = buckets[j].replacement_cache
                        /\ j # i => r.buckets[j] = buckets[j]

\* A full main list holds, not as its tail, a peer that is now observed
\* from another address.
C11_Witness ==
    \E c \in Contacts :
        LET b == buckets[Responsible(buckets, c.guid)]
        IN /\ Len(b.contacts) = K
           /\ c.guid \in GuidsOf(b.contacts)
           /\ b.contacts[Len(b.contacts)].guid # c.guid
           /\ \A j \in 1..Len(b.contacts) : b.contacts[j] # c

\* ------------------------------------------------------------------------
\* C12: KBucket.add_contact(c) on a bucket whose main list has K contacts,
\* none of them with c.guid, fails with FullBucketError and leaves the
\* bucket as it was: main list, range and replacement cache.
C12_FullBucketUnchanged ==
    \A i \in 1..Len(buckets) :
        \A c \in Contacts :
            (/\ Len(buckets[i].contacts) = K
             /\ c.guid \notin GuidsOf(buckets[i].contacts))
            => /\ KBucket_add_contact(buckets[i], c).err = "FullBucketError"
               /\ KBucket_add_contact(buckets[i], c).bucket = buckets[i]

\* A full bucket with cached contacts, and an observed peer of its range
\* that it does not hold.
C12_Witness ==
    \E i \in 1..Len(buckets) :
        /\ Len(buckets[i].contacts) = K
        /\ buckets[i].replacement_cache # <<>>
        /\ \E c \in Contacts :
              /\ Responsible(buckets, c.guid) = i
              /\ c.guid \notin GuidsOf(buckets[i].contacts)


\* ------------------------------------------------------------------------
\* Lookups asked of the table: targets, counts and senders.
\* One target in each range a bucket of this table can come to have.
LookupTargets ==
    {num_to_guid(n) : n \in {0, FarBase, mid_num_guid, FarBase + K,
                             Pow2(BIT_NODE_ID_LEN) - 1}}

MaxCount == 2 * K + 1

LookupCounts == 0 .. MaxCount

LookupSenders == {None} \cup {num_to_guid(n) : n \in LookupNums}

\* The contacts of a main list whose guid differs from guid.
Others(b, guid) == SelectSeq(b.contacts, LAMBDA c : c.guid # guid)

RECURSIVE OthersCount(_, _)
\* The number of contacts in all main lists whose guid differs from guid.
OthersCount(bs, guid) ==
    IF bs = <<>> THEN 0
    ELSE Len(Others(Head(bs), guid)) + OthersCount(Tail(bs), guid)

Elems(seq) == {seq[k] : k \in 1..Len(seq)}

\* The result of find_close_nodes(t, n, s) called in the current state.
FindResult(t, n, s) == find_close_nodes(buckets, t, n, s).closest_nodes

\* ------------------------------------------------------------------------
\* C13: find_close_nodes(target, count, sender_guid), count >= 0, returns
\* exactly min(count, N) contacts, N the number of contacts of all main
\* lists whose guid differs from sender_guid; none of them has the guid
\* sender_guid; and a result shorter than count holds every such contact.
C13_FindReturnsMin ==
    \A t \in LookupTargets : \A n \in LookupCounts : \A s \in LookupSenders :
        LET r == FindResult(t, n, s)
        IN /\ find_close_nodes(buckets, t, n, s).err = "none"
           /\ Len(r) = Min(n, OthersCount(buckets, s))
           /\ \A k \in 1..Len(r) : r[k].guid # s
           /\ Len(r) < n =>
                  \A i \in 1..Len(buckets) :
                      Elems(Others(buckets[i], s)) \subseteq Elems(r)

\* Three buckets hold contacts, the sender among them, and the table
\* knows fewer other contacts than the largest count asked for.
C13_Witness ==
    /\ Cardinality({i \in 1..Len(buckets) : buckets[i].contacts # <<>>}) >= 3
    /\ \E s \in LookupSenders :
          /\ s \in StoredGuids(buckets)
          /\ OthersCount(buckets, s) < OthersCount(buckets, None)
          /\ OthersCount(buckets, s) < MaxCount
          /\ OthersCount(buckets, s) > K


\* ------------------------------------------------------------------------
\* C14: find_close_nodes visits the buckets in the order i0, i0 - 1,
\* i0 + 1, i0 - 2, i0 + 2, ... (i0 the index of the bucket responsible for
\* the target, indices outside the table skipped, every bucket once), the
\* result lists the contacts bucket by bucket in that order, and contacts
\* of a later bucket are in the result only when every contact of all
\* earlier buckets whose guid is not sender_guid is in it; so when the
\* responsible bucket holds at least count such contacts, every returned
\* contact is one of the responsible bucket.
Abs(x) == IF x < 0 THEN 0 - x ELSE x

\* Position in the visiting order of the bucket that holds the contact c.
VisitPos(order, c) ==
    CHOOSE p \in 1..Len(order) : c \in Elems(buckets[order[p] + 1].contacts)

C14_Counts == (0 - 1) .. MaxCount

\* C14: the visiting order of find_close_nodes and what it takes from
\* each bucket.
C14_VisitOrder ==
    \A t \in LookupTargets :
        LET i0    == get_kbucket_index(buckets, t)
            order == gen_indices_closest_to_furthest(i0, Len(buckets))
        IN /\ Len(order) = Len(buckets)
           /\ order[1] = i0
           /\ Elems(order) = 0 .. (Len(buckets) - 1)
           /\ \A p \in 1..Len(order) : \A q \in (p + 1)..Len(order) :
                  \/ Abs(order[p] - i0) < Abs(order[q] - i0)
                  \/ /\ Abs(order[p] - i0) = Abs(order[q] - i0)
                     /\ order[p] < order[q]
           /\ \A n \in C14_Counts : \A s \in LookupSenders :
                  LET r == FindResult(t, n, s)
                  IN /\ \A k \in 1..Len(r) :
                         \E p \in 1..Len(order) :
                             r[k] \in Elems(buckets[order[p] + 1].contacts)
                     /\ \A k \in 1..Len(r) : \A l \in (k + 1)..Len(r) :
                            VisitPos(order, r[k]) <= VisitPos(order, r[l])
                     /\ \A k \in 1..Len(r) :
                            \A p \in 1..(VisitPos(order, r[k]) - 1) :
                                Elems(Others(buckets[order[p] + 1], s))
                                    \subseteq Elems(r)
                     /\ Len(Others(buckets[i0 + 1], s)) >= n =>
                            Elems(r) \subseteq
                                Elems(buckets[i0 + 1].contacts)

\* The target's bucket has buckets on both sides, all three hold contacts,
\* and a lookup for more contacts than the target's bucket and the bucket
\* below it hold takes contacts from the bucket above.
C14_Witness ==
    \E t \in LookupTargets :
        LET i0 == get_kbucket_index(buckets, t)
        IN /\ i0 >= 1
           /\ i0 + 2 <= Len(buckets)
           /\ buckets[i0].contacts # <<>>
           /\ buckets[i0 + 1].contacts # <<>>
           /\ buckets[i0 + 2].contacts # <<>>
           /\ \E n \in C14_Counts :
                  /\ Len(FindResult(t, n, None)) = n
                  /\ Elems(FindResult(t, n, None))
                         \cap Elems(buckets[i0 + 2].contacts) # {}
                  /\ ~(Elems(buckets[i0 + 2].contacts)
                           \subseteq Elems(FindResult(t, n, None)))


\* ------------------------------------------------------------------------
\* C15: KBucket.get_contacts(count, excluded_guid) returns min(count, M)
\* contacts of the main list, M the number of its contacts whose guid
\* differs from excluded_guid; all M of them when count < 0 and none when
\* count = 0.  None of them has the excluded guid and none is returned
\* twice, so the exclusion costs a place only when no other contact is
\* left; excluding a guid the bucket does not hold returns as many
\* contacts, and the same ones, as excluding nothing.
C15_Counts == (0 - 1) .. (K + 1)

PosIn(seq, c) == CHOOSE j \in 1..Len(seq) : seq[j] = c

\* C16: the result of get_contacts is ordered tail first, whether a guid is
\* excluded or not.
C16_TailFirst ==
    \A i \in 1..Len(buckets) : \A n \in C15_Counts : \A g \in LookupSenders :
        LET r == KBucket_get_contacts(buckets[i], n, g)
        IN \A k \in 1..Len(r) : \A l \in (k + 1)..Len(r) :
               PosIn(buckets[i].contacts, r[k])
                   > PosIn(buckets[i].contacts, r[l])


\* ------------------------------------------------------------------------
\* The table after remove_contact(c) / remove_guid(guid) in the current
\* state.
RemoveContactResult(c) == RoutingTable_remove_contact(buckets, c)

RemoveGuidResult(guid) == RoutingTable_remove_guid(buckets, guid)

InNoMainList(bs, guid) ==
    \A i \in 1..Len(bs) : guid \notin GuidsOf(bs[i].contacts)

\* ------------------------------------------------------------------------
\* C17: after remove_contact(c) or remove_guid(c.guid) returns, in any
\* reachable table, get_contact(c.guid) returns none and no main list holds
\* c.guid: the refill that ends the removal does not bring c back from the
\* replacement cache.
C17_RemovedNotInMain ==
    \A c \in Contacts :
        /\ RemoveContactResult(c).err = "none"
        /\ RoutingTable_get_contact(RemoveContactResult(c).buckets, c.guid)
               = <<>>
        /\ InNoMainList(RemoveContactResult(c).buckets, c.guid)
        /\ RemoveGuidResult(c.guid).err = "none"
        /\ RoutingTable_get_contact(RemoveGuidResult(c.guid).buckets, c.guid)
               = <<>>
        /\ InNoMainList(RemoveGuidResult(c.guid).buckets, c.guid)

\* One bucket holds a contact in its main list and others in its cache,
\* so that removing the contact refills the main list; and a contact is
\* held in a replacement cache only.
C17_Witness ==
    /\ \E c \in Contacts :
          LET b == buckets[Responsible(buckets, c.guid)]
          IN /\ c.guid \in GuidsOf(b.contacts)
             /\ b.replacement_cache # <<>>
             /\ Len(RemoveContactResult(c).buckets[
                        Responsible(buckets, c.guid)].contacts) = K
    /\ \E c \in Contacts :
          c.guid \in GuidsOf(
              buckets[Responsible(buckets, c.guid)].replacement_cache)

\* ------------------------------------------------------------------------
\* C18: remove_contact / remove_guid removes the contact for good: after
\* the call no bucket holds its guid, neither in a main list nor in a
\* replacement cache, and a later removal of another contact does not make
\* get_contact return it.
C18_RemovedForGood ==
    \A c \in Contacts :
        /\ c.guid \notin StoredGuids(RemoveContactResult(c).buckets)
        /\ c.guid \notin StoredGuids(RemoveGuidResult(c.guid).buckets)
        /\ \A d \in Contacts :
               d.guid # c.guid =>
                   /\ RoutingTable_get_contact(
                          RoutingTable_remove_contact(
                              RemoveContactResult(c).buckets, d).buckets,
                          c.guid) = <<>>
                   /\ RoutingTable_get_contact(
                          RoutingTable_remove_guid(
                              RemoveGuidResult(c.guid).buckets,
                              d.guid).buckets,
                          c.guid) = <<>>

C20_CacheBoundedFifo ==
    \A i \in 1..Len(buckets) : \A c \in Contacts :
        LET b     == buckets[i]
            after == cache_contact(b, c)
            kept  == SelectSeq(b.replacement_cache,
                               LAMBDA d : d.guid # c.guid)
        IN /\ after.replacement_cache =
                  (IF Len(kept) + 1 > CACHE_K THEN Tail(kept) ELSE kept)
                      \o <<c>>
           /\ Len(after.replacement_cache) <= CACHE_K
           /\ Cardinality(GuidsOf(after.replacement_cache))
                  = Len(after.replacement_cache)
           /\ after.contacts = b.contacts
           /\ RangeOf(after) = RangeOf(b)

\* A full replacement cache, an observed peer of its range that is stored
\* nowhere (caching it evicts the head), and a cached contact that is not
\* the newest entry (caching it again moves it to the tail).
C20_Witness ==
    \E i \in 1..Len(buckets) :
        /\ Len(buckets[i].replacement_cache) = CACHE_K
        /\ \E c \in Contacts :
              /\ Responsible(buckets, c.guid) = i
              /\ c.guid # own_guid
              /\ c.guid \notin StoredGuids(buckets)
        /\ \E c \in Contacts :
              /\ c.guid \in GuidsOf(buckets[i].replacement_cache)
              /\ buckets[i].replacement_cache[CACHE_K].guid # c.guid


\* ------------------------------------------------------------------------
\* The replacement cache and the main list of one bucket (C21..C26)
\* ------------------------------------------------------------------------
\* "len(contacts) = K or len(cache) = 0"
BucketInvariant(b) ==
    Len(b.contacts) = K \/ Len(b.replacement_cache) = 0

\* The guids held both in the main list and in the replacement cache.
Overlap(b) == GuidsOf(b.contacts) \cap GuidsOf(b.replacement_cache)

\* C21 as stated: after any public operation of a CachingKBucket settles,
\* the bucket satisfies len(contacts) = K or len(cache) = 0.  The operations
\* are applied to every bucket of the reachable tables, a new bucket among
\* them, with every observed contact of the bucket's range.
C21_AfterAnyOperation ==
    \A i \in 1..Len(buckets) : \A c \in CacheContacts :
        LET b     == buckets[i]
            split == CachingKBucket_split_kbucket(b, now)
        IN contact_in_range(b, c) =>
              /\ BucketInvariant(KBucket_add_contact(b, c).bucket)
              /\ BucketInvariant(cache_contact(b, c))
              /\ BucketInvariant(CachingKBucket_remove_contact(b, c).bucket)
              /\ BucketInvariant(CachingKBucket_remove_guid(b, c.guid).bucket)
              /\ BucketInvariant(fill_from_cache(b).bucket)
              /\ split.err = "none" =>
                    /\ BucketInvariant(split.self)
                    /\ BucketInvariant(split.new_kbucket)

\* C21 (amended): in every state a RoutingTable reaches through
\* add_contact, remove_contact and remove_guid, every bucket satisfies
\* len(contacts) = K or len(cache) = 0.
C21_TableBucketsSettled ==
    \A i \in 1..Len(buckets) : BucketInvariant(buckets[i])

\* A full bucket with a cached contact next to a bucket with room and an
\* empty cache.
C21_Witness ==
    /\ \E i \in 1..Len(buckets) :
          /\ Len(buckets[i].contacts) = K
          /\ Len(buckets[i].replacement_cache) > 0
    /\ \E i \in 1..Len(buckets) :
          /\ Len(buckets[i].contacts) \in 1..(K - 1)
          /\ Len(buckets[i].replacement_cache) = 0


\* C22: for a CachingKBucket in any state reachable through its public
\* operations, after fill_from_cache settles (called directly, or by
\* remove_contact, remove_guid or split_kbucket) no guid is both in the
\* main list and in the replacement cache, and after split_kbucket no
\* contact is both in a main list and in a cache of either bucket.
C22_NoOverlapAfterFill ==
    \A i \in BucketIndices : \A c \in BucketContacts :
        LET b     == buckets[i]
            split == CachingKBucket_split_kbucket(b, now)
        IN /\ Overlap(fill_from_cache(b).bucket) = {}
           /\ Overlap(CachingKBucket_remove_contact(b, c).bucket) = {}
           /\ Overlap(CachingKBucket_remove_guid(b, c.guid).bucket) = {}
           /\ split.err = "none" =>
                 (GuidsOf(split.self.contacts)
                      \cup GuidsOf(split.new_kbucket.contacts))
                   \cap (GuidsOf(split.self.replacement_cache)
                      \cup GuidsOf(split.new_kbucket.replacement_cache))
                   = {}


\* The main list after the guid was removed from it, before the refill.
MainAfterRemoval(b, guid) ==
    SelectSeq(b.contacts, LAMBDA d : d.guid # guid)

\* C23 as stated: after remove_contact / remove_guid on a bucket whose
\* replacement cache is not empty, if the main list has room after the
\* removal, exactly one cached contact is promoted, the newest one: the
\* cache loses only its tail entry, which becomes the tail of the main list.
C23_ExactlyOnePromoted ==
    \A i \in BucketIndices : \A c \in BucketContacts :
        LET b     == buckets[i]
            cache == b.replacement_cache
            main  == MainAfterRemoval(b, c.guid)
            byC   == CachingKBucket_remove_contact(b, c).bucket
            byG   == CachingKBucket_remove_guid(b, c.guid).bucket
        IN (Len(cache) > 0 /\ Len(main) < K) =>
              /\ byC.replacement_cache = SubSeq(cache, 1, Len(cache) - 1)
              /\ byC.contacts = Append(main, cache[Len(cache)])
              /\ byG = byC

\* C23 (amended): the removal promotes the m newest cached contacts,
\* m = min(len(cache), room after the removal), newest first: the cache
\* loses its last m entries, and the main list is the list after the
\* removal without the guids of those entries, followed by them from the
\* newest to the oldest.  m = 1, the case of the claim, whenever the main
\* list was full before the removal.
C23_NewestPromoted ==
    \A i \in BucketIndices : \A c \in BucketContacts :
        LET b     == buckets[i]
            cache == b.replacement_cache
            main  == MainAfterRemoval(b, c.guid)
            m     == Min(Len(cache), K - Len(main))
            moved == Reversed(SubSeq(cache, Len(cache) - m + 1, Len(cache)))
            byC   == CachingKBucket_remove_contact(b, c).bucket
            byG   == CachingKBucket_remove_guid(b, c.guid).bucket
        IN /\ byC.replacement_cache = SubSeq(cache, 1, Len(cache) - m)
           /\ byC.contacts =
                  SelectSeq(main, LAMBDA d : d.guid \notin GuidsOf(moved))
                      \o moved
           /\ byG = byC
           /\ (Len(b.contacts) = K /\ Len(main) < K /\ Len(cache) > 0) =>
                 /\ m = 1
                 /\ byC.replacement_cache = SubSeq(cache, 1, Len(cache) - 1)
                 /\ byC.contacts[Len(byC.contacts)] = cache[Len(cache)]

\* A full bucket with a full replacement cache of other guids, and an
\* observed contact of its main list: removing it promotes the newest
\* cached contact and no other.
C23_Witness ==
    \E i \in BucketIndices : \E c \in BucketContacts :
        /\ Len(buckets[i].contacts) = K
        /\ c \in Elems(buckets[i].contacts)
        /\ Len(buckets[i].replacement_cache) = CACHE_K
        /\ Overlap(buckets[i]) = {}
        /\ Len(CachingKBucket_remove_contact(buckets[i], c).bucket.contacts)
              = K

\* C24: fill_from_cache moves contacts from the cache to the main list
\* newest first, while the main list has room and the cache is not empty,
\* and it only moves: len(main list) + len(cache) is the same before and
\* after, and the main list grows whenever it had room and the cache was
\* not empty.
C24_FillOnlyMoves ==
    \A i \in BucketIndices :
        LET b     == buckets[i]
            cache == b.replacement_cache
            m     == Min(Len(cache), K - Len(b.contacts))
            after == fill_from_cache(b).bucket
        IN /\ after.replacement_cache = SubSeq(cache, 1, Len(cache) - m)
           /\ after.contacts =
                  b.contacts
                      \o Reversed(SubSeq(cache, Len(cache) - m + 1,
                                         Len(cache)))
           /\ Len(after.contacts) + Len(after.replacement_cache)
                  = Len(b.contacts) + Len(cache)
           /\ (Len(b.contacts) < K /\ Len(cache) > 0) =>
                 Len(after.contacts) > Len(b.contacts)


\* The contacts of seq whose guid lies in [lo, hi), in the order of seq.
Within(seq, lo, hi) ==
    SelectSeq(seq, LAMBDA d : lo <= guid_to_num(d.guid)
                                  /\ guid_to_num(d.guid) < hi)

\* C25: KBucket.split_kbucket on a bucket with range [lo, hi), hi - lo >= 2,
\* narrows the bucket to [lo, mid) and returns a new bucket with range
\* [mid, hi), mid = lo + (hi - lo) div 2; the two main lists together hold
\* the contacts of the main list before the split, each contact in the
\* bucket whose range holds its guid, in the order it had before the split.
C25_SplitHalves ==
    \A i \in BucketIndices :
        LET b   == buckets[i]
            lo  == b.range_min
            hi  == b.range_max
            mid == lo + (hi - lo) \div 2
            r   == KBucket_split_kbucket(b, now)
        IN hi - lo >= 2 =>
              /\ r.err = "none"
              /\ RangeOf(r.self) = [range_min |-> lo, range_max |-> mid]
              /\ RangeOf(r.new_kbucket) = [range_min |-> mid, range_max |-> hi]
              /\ r.self.contacts = Within(b.contacts, lo, mid)
              /\ r.new_kbucket.contacts = Within(b.contacts, mid, hi)
              /\ Elems(r.self.contacts) \cup Elems(r.new_kbucket.contacts)
                     = Elems(b.contacts)
              /\ Len(r.self.contacts) + Len(r.new_kbucket.contacts)
                     = Len(b.contacts)
              /\ \A d \in Elems(r.self.contacts) : contact_in_range(r.self, d)
              /\ \A d \in Elems(r.new_kbucket.contacts) :
                     contact_in_range(r.new_kbucket, d)

\* A full bucket whose first contact goes to the new bucket and whose last
\* contact stays.
C25_Witness ==
    \E i \in BucketIndices :
        LET b == buckets[i]
            r == KBucket_split_kbucket(b, now)
        IN /\ Len(b.contacts) = K
           /\ r.err = "none"
           /\ b.contacts[1] \in Elems(r.new_kbucket.contacts)
           /\ b.contacts[K] \in Elems(r.self.contacts)


\* The main list and the cache after the refill of a bucket holding them:
\* the newest cached contacts, as many as fit, follow the main list.
Refilled(main, cache) ==
    LET m     == Min(Len(cache), K - Len(main))
        moved == Reversed(SubSeq(cache, Len(cache) - m + 1, Len(cache)))
    IN [contacts |->
            SelectSeq(main, LAMBDA d : d.guid \notin GuidsOf(moved))
                \o moved,
        replacement_cache |-> SubSeq(cache, 1, Len(cache) - m)]

Lists(b) ==
    [contacts |-> b.contacts, replacement_cache |-> b.replacement_cache]

\* C26: CachingKBucket.split_kbucket partitions the replacement cache by
\* the two new ranges, keeping the order within each side, and then refills
\* each bucket from its own cache: every contact cached before the split
\* ends in the main list or the cache of the bucket whose range holds its
\* guid, and in neither list of the other bucket.
C26_CacheSplit ==
    \A i \in BucketIndices :
        LET b    == buckets[i]
            lo   == b.range_min
            hi   == b.range_max
            mid  == lo + (hi - lo) \div 2
            r    == CachingKBucket_split_kbucket(b, now)
            low  == GuidsOf(r.self.contacts)
                        \cup GuidsOf(r.self.replacement_cache)
            high == GuidsOf(r.new_kbucket.contacts)
                        \cup GuidsOf(r.new_kbucket.replacement_cache)
        IN hi - lo >= 2 =>
              /\ r.err = "none"
              /\ Lists(r.self) =
                     Refilled(Within(b.contacts, lo, mid),
                              Within(b.replacement_cache, lo, mid))
              /\ Lists(r.new_kbucket) =
                     Refilled(Within(b.contacts, mid, hi),
                              Within(b.replacement_cache, mid, hi))
              /\ \A d \in Elems(b.replacement_cache) :
                    IF guid_to_num(d.guid) < mid
                    THEN d.guid \in low /\ d.guid \notin high
                    ELSE d.guid \in high /\ d.guid \notin low

\* A full bucket with a cached contact of each half: the split moves each
\* to its side, where the refill promotes it.
C26_Witness ==
    \E i \in BucketIndices :
        LET b   == buckets[i]
            mid == half_point(b)
            r   == CachingKBucket_split_kbucket(b, now)
        IN /\ Len(b.contacts) = K
           /\ Overlap(b) = {}
           /\ \E d \in Elems(b.replacement_cache) : guid_to_num(d.guid) < mid
           /\ \E d \in Elems(b.replacement_cache) : guid_to_num(d.guid) >= mid
           /\ r.err = "none"
           /\ r.self.replacement_cache = <<>>
           /\ r.new_kbucket.replacement_cache = <<>>


\* ------------------------------------------------------------------------
\* The refresh list and the time of last access (C27..C29)
\* ------------------------------------------------------------------------
\* The bucket list with every last_accessed set to t.
AllAccessedAt(bs, t) == [i \in 1..Len(bs) |-> [bs[i] EXCEPT !.last_accessed = t]]

\* C28: get_refresh_list(force = true) returns exactly one identifier per
\* bucket, in bucket order, the i-th inside the range of the i-th bucket,
\* in every reachable table state, and it does not depend on last_accessed.
C28_ForcedRefreshList ==
    LET r == get_refresh_list(buckets, TRUE)
    IN /\ r.err = "none"
       /\ r.lists # {}
       /\ \A l \in r.lists :
             /\ Len(l) = Len(buckets)
             /\ \A i \in 1..Len(buckets) : guid_in_range(buckets[i], l[i])
       /\ \A t \in 0..MaxNow :
             get_refresh_list(AllAccessedAt(buckets, t), TRUE) = r

\* A table of three buckets or more, the newest made later than the first,
\* read after the clock has moved on.
C28_Witness ==
    /\ Len(buckets) >= 3
    /\ \E i \in 1..Len(buckets) :
          buckets[i].last_accessed > buckets[1].last_accessed
    /\ \E i \in 1..Len(buckets) : buckets[i].last_accessed < now


\* C27: touch discipline.  add_contact touches the bucket whenever it adds
\* or refreshes a contact in its main list, and get_contact touches the
\* bucket whenever it finds a contact (get_contact leaves the bucket list
\* as it is, see GetContact): after such a call at time `now` the bucket's
\* last_accessed is `now`.
C27_TouchDiscipline ==
    \A c \in ClockContacts :
        LET r == AddResult(c)
        IN /\ r.outcome \in {"added", "refreshed"} =>
                 r.buckets[Responsible(r.buckets, c.guid)].last_accessed
                     = now
           /\ RoutingTable_get_contact(buckets, c.guid) # <<>> =>
                 buckets[Responsible(buckets, c.guid)].last_accessed = now

\* Staleness as the claim defines it.
Stale(b) == now - b.last_accessed >= REFRESH_TIMEOUT

\* C29: get_refresh_list() with force = false returns one identifier for
\* each stale bucket (now - last_accessed >= REFRESH_TIMEOUT), inside that
\* bucket's range, and none for any other bucket; on a table whose buckets
\* are all fresh, a new empty table included, it returns the empty list
\* without error.
C29_StaleRefreshList ==
    LET r == get_refresh_list(buckets, FALSE)
    IN /\ r.err = "none"
       /\ r.lists = RefreshLists(SelectSeq(buckets, Stale))


\* ------------------------------------------------------------------------
\* Identifiers that are not HEX_NODE_ID_LEN digits of a number in range
\* ------------------------------------------------------------------------
\* No digit at all; a digit too many with a value in range; a digit too
\* many with the value 2^BIT_NODE_ID_LEN, out of range.
BadGuids ==
    {<<>>, <<"0">> \o num_to_guid(2), <<"1">> \o num_to_guid(0)}

\* C30: every RoutingTable operation that takes an identifier (add_contact,
\* get_contact, remove_contact, remove_guid, find_close_nodes) fails with
\* the bad-identifier error when the identifier does not have exactly
\* HEX_NODE_ID_LEN digits or its value lies outside [0, 2^BIT_NODE_ID_LEN),
\* and leaves the table unchanged.
C30_BadIdentifierRejected ==
    \A guid \in BadGuids :
        LET c    == Contact("123.45.67.89", 12345, guid)
            add  == AddResult(c)
            rmc  == RemoveContactResult(c)
            rmg  == RemoveGuidResult(guid)
            find == find_close_nodes(buckets, guid, K, None)
        IN /\ Len(guid) # HEX_NODE_ID_LEN
                 \/ guid_to_num(guid) \notin 0..(Pow2(BIT_NODE_ID_LEN) - 1)
           /\ add.err = "BadGUIDError" /\ add.buckets = buckets
           /\ RoutingTable_get_contact_err(buckets, guid) = "BadGUIDError"
           /\ rmc.err = "BadGUIDError" /\ rmc.buckets = buckets
           /\ rmg.err = "BadGUIDError" /\ rmg.buckets = buckets
           /\ find.err = "BadGUIDError"


\* ------------------------------------------------------------------------
\* The order of the main lists and the order of the observations (C31)
\* ------------------------------------------------------------------------
\* The rank of the last add_contact observation of the guid.
ObservedAt(guid) ==
    CHOOSE k \in 1..Len(observed) : observed[k] = guid

\* C31: in every reachable state of the routing table each bucket's main
\* list is ordered by the time of the last add_contact observation of each
\* contact, the tail being the most recently added or refreshed contact and
\* the head the stalest, also after splits and after promotions from the
\* replacement cache.
C31_FreshnessOrder ==
    \A i \in 1..Len(buckets) :
        LET main == buckets[i].contacts
        IN \A j \in 1..Len(main) : \A k \in 1..Len(main) :
              j < k => ObservedAt(main[j].guid) < ObservedAt(main[k].guid)


\* ------------------------------------------------------------------------
\* Identifier round trip (C32)
\* ------------------------------------------------------------------------
\* Identifier widths the conversions are checked at, in hex digits.
HexLens == {HEX_NODE_ID_LEN, HEX_NODE_ID_LEN + 1}

\* A canonical identifier: HEX_NODE_ID_LEN lowercase hex digits.
Canonical(g, width) ==
    Len(g) = width /\ \A i \in 1..Len(g) : IsHexChar(g[i])

\* The identifiers of the current table: own_guid and the stored guids.
TableGuids == {own_guid} \cup StoredGuids(buckets)

\* C32: for every integer n of the identifier space
\* guid_to_num(num_to_guid(n)) = n and num_to_guid(n) has exactly
\* HEX_NODE_ID_LEN lowercase hex digits; for every canonical identifier g,
\* num_to_guid(guid_to_num(g)) = g; and guid_to_num gives the same number
\* for g, for g with a trailing L and for g with a leading 0x.
C32_GuidRoundTrip ==
    /\ \A w \in HexLens : \A n \in 0..(16 ^ w - 1) :
          LET g == num_to_guid_padded(n, w)
          IN /\ guid_to_num(g) = n
             /\ Canonical(g, w)
             /\ num_to_guid_padded(guid_to_num(g), w) = g
             /\ guid_to_num(Append(g, "L")) = n
             /\ guid_to_num(<<"0", "x">> \o g) = n
             /\ guid_to_num(<<"0", "x">> \o Append(g, "L")) = n
    /\ \A n \in 0..(Pow2(BIT_NODE_ID_LEN) - 1) :
          /\ guid_to_num(num_to_guid(n)) = n
          /\ Canonical(num_to_guid(n), HEX_NODE_ID_LEN)
    /\ \A g \in TableGuids :
          /\ Canonical(g, HEX_NODE_ID_LEN)
          /\ num_to_guid(guid_to_num(g)) = g
          /\ guid_to_num(Append(g, "L")) = guid_to_num(g)
          /\ guid_to_num(<<"0", "x">> \o g) = guid_to_num(g)

\* A table whose own_guid is a letter digit and which stores the guid of
\* zero, the number whose hex digits are all stripped before the padding.
C32_Witness ==
    /\ guid_to_num(own_guid) >= 10
    /\ num_to_guid(0) \in StoredGuids(buckets)
    /\ num_to_guid(Pow2(BIT_NODE_ID_LEN) - 1) \in TableGuids



\* ------------------------------------------------------------------------
\* C33: add_contact under one mutator and under two
\* ------------------------------------------------------------------------
NoCallRunning == \A t \in Threads : Frame(t).pc = "idle"

\* The ranges tile the identifier space in the order of the list.
RangesTile ==
    /\ Len(buckets) >= 1
    /\ buckets[1].range_min = 0
    /\ buckets[Len(buckets)].range_max = Pow2(BIT_NODE_ID_LEN)
    /\ \A i \in 1..Len(buckets) : buckets[i].range_min < buckets[i].range_max
    /\ \A i \in 1..(Len(buckets) - 1) :
           buckets[i].range_max = buckets[i + 1].range_min

OutOfRange(b) ==
    {g \in GuidsOf(b.contacts) \cup GuidsOf(b.replacement_cache) :
        ~guid_in_range(b, g)}

TableSound ==
    /\ RangesTile
    /\ \A i \in 1..Len(buckets) :
          /\ OutOfRange(buckets[i]) = {}
          /\ Len(buckets[i].contacts) <= K
          /\ Len(buckets[i].replacement_cache) <= CACHE_K
          /\ own_guid \notin GuidsOf(buckets[i].contacts)
    /\ err = "none"

\* C33: as long as no add_contact call has started while another one was
\* running, every table between two calls has ranges that tile the
\* identifier space in order, holds every contact in a bucket whose range
\* contains its guid, respects the capacities and has raised no error, and
\* no bucket was split whose range did not hold own_guid.
C33_SingleMutatorKeepsInvariants ==
    /\ (~calls.overlapped /\ NoCallRunning) => TableSound
    /\ ~calls.overlapped => ~calls.foreign_split

\* Two calls have run at the same time, both have returned, and a main list
\* holds a contact whose guid is outside the range of its bucket.
C33_Witness ==
    /\ calls.overlapped
    /\ NoCallRunning
    /\ \E i \in 1..Len(buckets) :
          \E g \in GuidsOf(buckets[i].contacts) : ~guid_in_range(buckets[i], g)


\* ------------------------------------------------------------------------
\* C34: the queries read and do not write
\* ------------------------------------------------------------------------
\* What the other operations observe of a table: the number of buckets and,
\* of each, the range, the main list and the replacement cache.
Observable(bs) ==
    [i \in 1..Len(bs) |->
        [range |-> RangeOf(bs[i]),
         contacts |-> bs[i].contacts,
         replacement_cache |-> bs[i].replacement_cache]]

\* The value the frame's call returns when it runs alone on the table bs.
Sequential(frame, bs) ==
    CASE frame.call = "get_contact" ->
             RoutingTable_get_contact(bs, frame.guid)
      [] frame.call = "find_close_nodes" ->
             find_close_nodes(bs, frame.guid, frame.count,
                              frame.sender_guid).closest_nodes
      [] frame.call = "get_refresh_list" ->
             get_refresh_list(bs, TRUE).lists

Returned(frame) ==
    IF frame.call = "get_refresh_list" THEN RefreshLists(frame.result)
    ELSE frame.result

\* C34: while get_contact, find_close_nodes and get_refresh_list calls run,
\* interleaved with each other in any way, the table keeps the number of
\* buckets, the ranges, the main lists and the replacement caches it had
\* when each of them was called, and each call returns what it returns when
\* it runs alone on that table.
C34_QueriesChangeNothing ==
    \A t \in Threads :
        Frame(t).pc # "idle" =>
            /\ Observable(buckets) = Observable(Frame(t).start)
            /\ Frame(t).pc = "done" =>
                   Returned(Frame(t)) = Sequential(Frame(t), buckets)

\* A find_close_nodes call that ran while another query was in progress has
\* returned contacts of two buckets, and the other thread is inside the
\* loop of its own find_close_nodes, with contacts already collected.
C34_Witness ==
    /\ calls.overlapped
    /\ \E t \in Threads, u \in Threads :
          /\ Frame(t).pc = "done"
          /\ Frame(t).call = "find_close_nodes"
          /\ Len(Frame(t).result) > K
          /\ Frame(u).pc = "find_close_nodes"
          /\ Frame(u).closest_nodes # <<>>
          /\ Frame(u).indices # <<>>


\* ------------------------------------------------------------------------
\* C35: a bucket that add_contact splits can be split
\* ------------------------------------------------------------------------
RangeSize(r) == r.range_max - r.range_min

\* C35: whatever contact is added to a reachable table, add_contact hands
\* split_kbucket only buckets whose range holds at least two identifiers,
\* the assertion of split_kbucket does not fail, and neither the table nor
\* the table after the call has a bucket with an empty range.
C35_SplitNeverFails ==
    /\ \A i \in 1..Len(buckets) : RangeSize(RangeOf(buckets[i])) >= 1
    /\ \A c \in Contacts :
          LET r == AddResult(c)
          IN /\ r.err # "AssertionError"
             /\ \A k \in 1..Len(r.split_ranges) :
                    RangeSize(r.split_ranges[k]) >= 2
             /\ \A i \in 1..Len(r.buckets) :
                    RangeSize(RangeOf(r.buckets[i])) >= 1

\* A contact whose add_contact splits a bucket of K + 2 identifiers, the
\* narrowest that can hold own_guid, K contacts and one more; the bucket of
\* own_guid it leaves is not split again.
C35_Witness ==
    \E c \in Contacts :
        LET r == AddResult(c)
        IN /\ r.split_ranges # <<>>
           /\ RangeSize(r.split_ranges[Len(r.split_ranges)]) = K + 2
           /\ \E i \in 1..Len(r.buckets) :
                 /\ guid_in_range(r.buckets[i], own_guid)
                 /\ RangeSize(RangeOf(r.buckets[i])) = 2


\* ------------------------------------------------------------------------
\* C36: the binary search of _get_kbucket_index
\* ------------------------------------------------------------------------
\* The 0-based indices a scan of the whole list finds for the number n.
LinearScan(bs, n) ==
    {i \in 0..(Len(bs) - 1) :
        bs[i + 1].range_min <= n /\ n < bs[i + 1].range_max}

\* Identifier values from 2^BIT_NODE_ID_LEN on, up to twice that.
BeyondNums == Pow2(BIT_NODE_ID_LEN) .. (2 * Pow2(BIT_NODE_ID_LEN))

\* C36: in every reachable table, for every number n of the identifier
\* space _get_kbucket_index returns the one index whose bucket has
\* range_min <= n < range_max, and for every number from
\* 2^BIT_NODE_ID_LEN on it raises BadGUIDError.
C36_BinarySearchIsLinearScan ==
    /\ \A n \in 0..(Pow2(BIT_NODE_ID_LEN) - 1) :
          LinearScan(buckets, n) = {get_kbucket_index(buckets, num_to_guid(n))}
    /\ \A n \in BeyondNums :
          /\ get_kbucket_index(buckets, num_to_guid(n)) = BadGUIDError
          /\ get_kbucket_index_err(num_to_guid(n)) = "BadGUIDError"
          /\ LinearScan(buckets, n) = {}

\* A table of four buckets: the search goes down, up, and ends on either
\* side of a midpoint.
C36_Witness ==
    /\ Len(buckets) >= 4
    /\ {get_kbucket_index(buckets, num_to_guid(n)) :
           n \in 0..(Pow2(BIT_NODE_ID_LEN) - 1)} = 0..(Len(buckets) - 1)


\* ------------------------------------------------------------------------
\* C37: the bucket of own_guid has no replacement cache to split
\* ------------------------------------------------------------------------
OwnBuckets(bs) == {i \in 1..Len(bs) : guid_in_range(bs[i], own_guid)}

\* C37: in every reachable table exactly one bucket has own_guid in its
\* range and its replacement cache is empty, and the same is true of the
\* table every add_contact leaves, so that the bucket add_contact splits
\* has no cached contact to divide.
C37_OwnBucketHasNoCache ==
    /\ Cardinality(OwnBuckets(buckets)) = 1
    /\ \A i \in OwnBuckets(buckets) : buckets[i].replacement_cache = <<>>
    /\ \A c \in Contacts :
          LET r == AddResult(c)
          IN /\ Cardinality(OwnBuckets(r.buckets)) = 1
             /\ \A i \in OwnBuckets(r.buckets) :
                    r.buckets[i].replacement_cache = <<>>

\* The bucket of own_guid is full and the next contact splits it, while
\* another bucket, which cannot be split, holds cached contacts.
C37_Witness ==
    /\ \E i \in OwnBuckets(buckets) : Len(buckets[i].contacts) = K
    /\ \E c \in Contacts : AddResult(c).split_ranges # <<>>
    /\ \E i \in 1..Len(buckets) : buckets[i].replacement_cache # <<>>


\* ------------------------------------------------------------------------
\* C38: at table level the cache backs up full buckets only
\* ------------------------------------------------------------------------
\* The bucket b after the contact of this guid left its main list and the
\* newest cached contact took the place at the tail.
NewestPromoted(b, guid) ==
    LET cache == b.replacement_cache
    IN [b EXCEPT
           !.contacts =
               Append(SelectSeq(b.contacts, LAMBDA d : d.guid # guid),
                      cache[Len(cache)]),
           !.replacement_cache = SubSeq(cache, 1, Len(cache) - 1)]

\* The table bs after that promotion in the bucket at place i.
PromotedAt(bs, i, guid) == [bs EXCEPT ![i] = NewestPromoted(bs[i], guid)]

\* C38: in every table reached through RoutingTable.add_contact,
\* remove_contact and remove_guid each bucket has a full main list or an
\* empty replacement cache, and remove_contact and remove_guid of a contact
\* of the main list of a bucket with cached contacts return the table in
\* which that contact is gone, the newest cached contact of the bucket is
\* the tail of its main list, the other cached contacts are still cached
\* and nothing else has changed.
C38_TableCacheBacksFullBuckets ==
    /\ \A i \in 1..Len(buckets) :
          \/ Len(buckets[i].contacts) = K
          \/ buckets[i].replacement_cache = <<>>
    /\ \A c \in Contacts :
          \A i \in 1..Len(buckets) :
              (/\ c.guid \in GuidsOf(buckets[i].contacts)
               /\ buckets[i].replacement_cache # <<>>) =>
                  /\ RemoveContactResult(c).err = "none"
                  /\ RemoveContactResult(c).buckets
                         = PromotedAt(buckets, i, c.guid)
                  /\ RemoveGuidResult(c.guid).err = "none"
                  /\ RemoveGuidResult(c.guid).buckets
                         = PromotedAt(buckets, i, c.guid)

\* A full bucket with two cached contacts: the removal of a contact of its
\* main list has one of the two to promote and leaves the other cached.
C38_Witness ==
    \E i \in 1..Len(buckets) : \E c \in Contacts :
        /\ Len(buckets[i].contacts) = K
        /\ Len(buckets[i].replacement_cache) >= 2
        /\ c.guid \in GuidsOf(buckets[i].contacts)
        /\ Len(RemoveGuidResult(c.guid).buckets[i].replacement_cache)
               = Len(buckets[i].replacement_cache) - 1

\* ------------------------------------------------------------------------
\* C39: a guid is stored once
\* ------------------------------------------------------------------------
\* How many entries of the main lists and replacement caches of the table
\* have this guid.
RECURSIVE Occurrences(_, _)
Occurrences(bs, guid) ==
    IF bs = <<>> THEN 0
    ELSE Len(SelectSeq(Head(bs).contacts, LAMBDA d : d.guid = guid))
         + Len(SelectSeq(Head(bs).replacement_cache,
                         LAMBDA d : d.guid = guid))
         + Occurrences(Tail(bs), guid)

\* C39: in every reachable table every guid has at most one entry in all
\* main lists and replacement caches together: not two in a main list, not
\* two in a cache, not one in each of a bucket, not in two buckets.
C39_GuidStoredOnce ==
    /\ \A c \in Contacts : Occurrences(buckets, c.guid) <= 1
    /\ StoredCount(buckets) = Cardinality(StoredGuids(buckets))

\* The table holds a contact under the address it moved to, added again
\* under the guid it had, and a bucket whose two cached contacts are not
\* in the order of their numbers.
C39_Witness ==
    /\ \E i \in 1..Len(buckets) : \E k \in 1..Len(buckets[i].contacts) :
          buckets[i].contacts[k].ip # "123.45.67.89"
    /\ \E i \in 1..Len(buckets) :
          /\ Len(buckets[i].replacement_cache) >= 2
          /\ guid_to_num(buckets[i].replacement_cache[1].guid)
                > guid_to_num(buckets[i].replacement_cache[2].guid)

====
